---------------------------- MODULE Spec2Model ----------------------------
(***************************************************************************)
(* A model of the emotion classification engine of echosphere/chat         *)
(* (emotion_analyzer.py): EmotionAnalyzer.analyze and the functions it     *)
(* calls, and of the websocket consumer that uses it (consumers.py).       *)
(*                                                                         *)
(* Specifications.                                                         *)
(*  - Spec: one caller calls analyze, one call after the other.            *)
(*  - SpecEmoji: calls of get_emotion_emoji.                               *)
(*  - SpecConsumer: one connected ChatConsumer receives frames.            *)
(*  - SpecConcurrent: analyze calls run in parallel on one analyzer.       *)
(*  - SpecPreprocess: preprocess_text is called on what it returned.       *)
(*  - SpecConnection: websocket connections are made to ChatConsumer and   *)
(*    closed.                                                              *)
(*                                                                         *)
(* Representation.                                                         *)
(*  - A Python str is a sequence of characters; a character is a           *)
(*    one-character string, and a character outside ASCII is written by    *)
(*    the name of its code point ("U+1F631").                              *)
(*  - A float is an integer number of thousandths (0.3 is 300, 1.5 is      *)
(*    3/2, 0.7 is 7/10).  Every product and sum the code forms from        *)
(*    0.3, 1.5 and 0.7 is a whole number of thousandths, so the            *)
(*    arithmetic of the model is exact.                                    *)
(*  - The two library scorers (VADER, TextBlob) are outside the           *)
(*    repository: each call returns any value of a grid that covers the    *)
(*    thresholds of classify_emotion, or raises.                           *)
(***************************************************************************)
EXTENDS Integers, Sequences, FiniteSets, TLC

VARIABLES
    pc,               \* position of the analyze call
    text,             \* the argument of analyze
    processed_text,   \* local of analyze (line 182)
    vader_scores,     \* local of analyze (line 185)
    textblob_scores,  \* local of analyze (line 186)
    pattern_scores,   \* local of analyze (line 187)
    result,           \* the value analyze returned
    invoked,          \* the methods the current analyze call has invoked
    logged,           \* the diagnostics logger.error has recorded in this call
    emoji_arg,        \* the argument of the last get_emotion_emoji call
    emoji_result,     \* what that call returned
    consumer_pc,      \* position of the consumer's receive call
    text_data,        \* the frame receive was called with
    message_content,  \* local of handle_chat_message (line 117)
    message,          \* local of handle_chat_message (line 126)
    raising,          \* the exception in flight inside receive, by its origin
    consumer_logged,  \* what receive has logged for the current frame
    db_messages,      \* the rows of chat_messages, in order of creation
    db_emotion_logs,  \* the rows of emotion_logs, in order of creation
    room_updated_at,  \* Room.updated_at: the id of the message that set it
    last_read_at,     \* RoomMembership.last_read_at of the user has been set
    group_events,     \* the events sent to the room group, in order
    frames_received,  \* the number of frames receive was called with
    library,          \* what the two library scorers do for each text
    config,           \* the attributes of the analyzer shared by parallel calls
    calls,            \* the locals of each of the parallel analyze calls
    heap,             \* the pattern-score dicts the parallel calls have made
    db_rooms,         \* the rows of chat_rooms
    db_memberships,   \* the rows of RoomMembership, as <<room slug, username>>
    consumers,        \* the attributes and the position of each consumer
    groups,           \* the channels of each group of the channel layer
    inboxes,          \* the events queued for each channel, in order
    sockets,          \* the frames each consumer has sent to its client
    group_sends       \* the group_send calls of each consumer, in order

\* The state of one analyze call.
analyzer_vars == <<pc, text, processed_text, vader_scores, textblob_scores,
                   pattern_scores, result, invoked, logged>>

\* The state of the emoji lookup.
emoji_vars == <<emoji_arg, emoji_result>>

\* The state of one connected ChatConsumer, of the database and of the room
\* group.
consumer_vars == <<consumer_pc, text_data, message_content, message, raising,
                   consumer_logged, db_messages, db_emotion_logs,
                   room_updated_at, last_read_at, group_events,
                   frames_received>>

\* The state of the analyze calls that run in parallel on one analyzer.
calls_vars == <<library, config, calls, heap>>

\* The state of the websocket connections, of the rooms they ask for and of
\* the channel layer.
connection_vars == <<db_rooms, db_memberships, consumers, groups, inboxes,
                     sockets, group_sends>>

\* What analyze does not touch.
other_vars == <<emoji_vars, consumer_vars, calls_vars, connection_vars>>

vars == <<analyzer_vars, other_vars>>

----------------------------------------------------------------------------
(* Bounds of the model *)

\* The longest input, in vocabulary words.
MaxWords == 2

\* The frames one consumer receives.
MaxFrames == 1

\* The analyze calls that run in parallel.
NumCalls == 2

\* The longest text given to preprocess_text alone, in characters.
MaxChars == 4

\* The websocket connections made.
NumConnections == 2

----------------------------------------------------------------------------
(* Characters and strings *)

\* The characters of an ASCII string literal, as a sequence.
Chars(s) == [i \in 1..Len(s) |-> SubSeq(s, i, i)]

Min(a, b) == IF a < b THEN a ELSE b
Max(a, b) == IF a > b THEN a ELSE b
Abs(a) == IF a < 0 THEN -a ELSE a

LowerCaseLetters == Chars("abcdefghijklmnopqrstuvwxyz")
UpperCaseLetters == Chars("ABCDEFGHIJKLMNOPQRSTUVWXYZ")
Digits == Chars("0123456789")

\* What \w matches (re, str patterns): letters, digits and the underscore.
WordChars ==
    {LowerCaseLetters[i] : i \in 1..26} \cup {UpperCaseLetters[i] : i \in 1..26}
        \cup {Digits[i] : i \in 1..10} \cup {"_"}

\* What str.strip() removes.
Whitespace == {" ", "\t", "\n", "\r"}

\* str.lower(), one character.
LowerChar(c) ==
    IF \E i \in 1..26 : UpperCaseLetters[i] = c
    THEN LowerCaseLetters[CHOOSE i \in 1..26 : UpperCaseLetters[i] = c]
    ELSE c

Lower(s) == [i \in 1..Len(s) |-> LowerChar(s[i])]

\* str.strip()
Strip(s) ==
    LET keep == {i \in 1..Len(s) : s[i] \notin Whitespace}
    IN  IF keep = {} THEN <<>>
        ELSE LET first == CHOOSE i \in keep : \A j \in keep : i <= j
                 last  == CHOOSE i \in keep : \A j \in keep : j <= i
             IN  SubSeq(s, first, last)

\* The length of the run of copies of s[i] that starts at i.
RECURSIVE RunLength(_, _)
RunLength(s, i) ==
    IF i < Len(s) /\ s[i + 1] = s[i] THEN 1 + RunLength(s, i + 1) ELSE 1

\* re.sub of a greedy run pattern: scanning from position i, every run of at
\* least minRun copies of one character of the class becomes `keep` copies.
\* The class is the set `class`, or its complement when `negated`.
RECURSIVE CollapseFrom(_, _, _, _, _, _)
CollapseFrom(s, i, class, negated, minRun, keep) ==
    IF i > Len(s) THEN <<>>
    ELSE LET r == RunLength(s, i)
         IN  IF ((s[i] \in class) # negated) /\ r >= minRun
             THEN [k \in 1..keep |-> s[i]]
                      \o CollapseFrom(s, i + r, class, negated, minRun, keep)
             ELSE <<s[i]>> \o CollapseFrom(s, i + 1, class, negated, minRun, keep)

\* `sub in s` for two strings.
Contains(s, sub) ==
    \E i \in 0..(Len(s) - Len(sub)) : SubSeq(s, i + 1, i + Len(sub)) = sub

\* \b at the place between s[i] and s[i+1] (i = 0: before the first character).
IsWordAt(s, i) == i >= 1 /\ i <= Len(s) /\ s[i] \in WordChars
WordBoundary(s, i) == IsWordAt(s, i) # IsWordAt(s, i + 1)

----------------------------------------------------------------------------
(* EmotionAnalyzer.__init__: the static configuration *)

\* A pattern group r'\b(w1|w2|...)\b'.
Alternation(words) ==
    [alts |-> [i \in 1..Len(words) |-> Chars(words[i])], class |-> {}]

\* A pattern group r'[...]'.
CharClass(chars) == [alts |-> <<>>, class |-> chars]

\* The categories, in the insertion order of the emotion_patterns dict.
Emotions == <<"happy", "sad", "angry", "surprised", "fearful", "disgusted">>

EmotionSet == {Emotions[i] : i \in 1..Len(Emotions)}

emotion_patterns ==
    [happy |-> <<
        Alternation(<<"happy", "joy", "excited", "great", "awesome", "amazing",
            "love", "wonderful", "fantastic", "excellent", "brilliant",
            "perfect", "good", "nice", "pleased", "delighted", "thrilled",
            "ecstatic">>),
        CharClass({"U+1F60A", "U+1F604", "U+1F603", "U+1F600", "U+1F973",
            "U+1F389", "U+1F60D", "U+1F929"}),
        Alternation(<<"yay", "woohoo", "hurray", "yes!", "yess", "woo">>) >>,
     sad |-> <<
        Alternation(<<"sad", "depressed", "down", "low", "upset", "hurt",
            "disappointed", "miserable", "unhappy", "gloomy", "blue",
            "heartbroken", "devastated">>),
        CharClass({"U+1F622", "U+1F62D", "U+1F61E", "U+1F614", "U+2639",
            "U+FE0F", "U+1F494", "U+1F62A", "U+1F61F"}),
        Alternation(<<"cry", "crying", "tears", "weep", "sob">>) >>,
     angry |-> <<
        Alternation(<<"angry", "mad", "furious", "pissed", "annoyed",
            "frustrated", "irritated", "rage", "hate", "disgusted", "fed up",
            "sick of">>),
        CharClass({"U+1F620", "U+1F621", "U+1F92C", "U+1F624", "U+1F4A2"}),
        Alternation(<<"damn", "shit", "fuck", "hell", "stupid", "idiot",
            "hate">>) >>,
     surprised |-> <<
        Alternation(<<"surprised", "shocked", "amazed", "wow", "whoa", "omg",
            "incredible", "unbelievable", "astonishing">>),
        CharClass({"U+1F632", "U+1F631", "U+1F92F", "U+1F627", "U+1F62E"}),
        Alternation(<<"wow!", "omg!", "no way!", "really?", "seriously?">>) >>,
     fearful |-> <<
        Alternation(<<"scared", "afraid", "frightened", "terrified", "worried",
            "anxious", "nervous", "panic", "fear">>),
        CharClass({"U+1F628", "U+1F630", "U+1F631", "U+1F648"}),
        Alternation(<<"help", "scared", "terrifying", "nightmare">>) >>,
     disgusted |-> <<
        Alternation(<<"disgusted", "sick", "gross", "yuck", "eww", "nasty",
            "revolting", "repulsive">>),
        CharClass({"U+1F922", "U+1F92E", "U+1F637", "U+1F927"}),
        Alternation(<<"yuck", "eww", "gross", "ugh">>) >>]

intensifiers ==
    << Chars("very"), Chars("extremely"), Chars("incredibly"), Chars("super"),
       Chars("really"), Chars("so"), Chars("absolutely") >>

diminishers ==
    << Chars("slightly"), Chars("somewhat"), Chars("kind of"),
       Chars("sort of"), Chars("a bit"), Chars("little") >>

\* 0.3, the score of one match (line 121), in thousandths.
MatchScore == 300

----------------------------------------------------------------------------
(* re.findall(pattern, text, re.IGNORECASE) *)

\* Alternative a of r'\b(...)\b' matches at offset i of s.
AlternativeMatchesAt(s, a, i) ==
    /\ WordBoundary(s, i)
    /\ i + Len(a) <= Len(s)
    /\ SubSeq(s, i + 1, i + Len(a)) = a
    /\ WordBoundary(s, i + Len(a))

\* The length of the match at offset i: that of the first alternative, in the
\* order written, that matches there; 0 when none does.
MatchLengthAt(s, alts, i) ==
    IF \E k \in 1..Len(alts) : AlternativeMatchesAt(s, alts[k], i)
    THEN Len(alts[CHOOSE k \in 1..Len(alts) :
                /\ AlternativeMatchesAt(s, alts[k], i)
                /\ \A j \in 1..(k - 1) : ~AlternativeMatchesAt(s, alts[j], i)])
    ELSE 0

\* The number of non-overlapping matches found scanning from offset i.
RECURSIVE CountFrom(_, _, _)
CountFrom(s, alts, i) ==
    IF i >= Len(s) THEN 0
    ELSE LET m == MatchLengthAt(s, alts, i)
         IN  IF m > 0 THEN 1 + CountFrom(s, alts, i + m)
             ELSE CountFrom(s, alts, i + 1)

\* FindAllCount as a test: 1 when the pattern matches anywhere, else 0.
FindAllCountAny(pattern, s) ==
    IF pattern.alts = <<>>
    THEN IF \E i \in 1..Len(s) : s[i] \in pattern.class THEN 1 ELSE 0
    ELSE IF CountFrom(Lower(s), pattern.alts, 0) > 0 THEN 1 ELSE 0

\* len(re.findall(pattern, s, re.IGNORECASE))
FindAllCount(pattern, s) ==
    IF pattern.alts = <<>>
    THEN Cardinality({i \in 1..Len(s) : s[i] \in pattern.class})
    ELSE CountFrom(Lower(s), pattern.alts, 0)

----------------------------------------------------------------------------
(* Python values given to analyze *)

Str(chars) == [type |-> "str", value |-> chars]

\* None, and two ints written by their decimal digits.
NoneValue == [type |-> "NoneType", value |-> <<>>]
IntZero == [type |-> "int", value |-> <<"0">>]
IntFortyTwo == [type |-> "int", value |-> <<"4", "2">>]

\* isinstance(v, str)
IsStr(v) == v.type = "str"

\* bool(v): `not v` is its negation.
Truthy(v) ==
    CASE v.type = "str" -> Len(v.value) > 0
      [] v.type = "NoneType" -> FALSE
      [] OTHER -> v.value # <<"0">>

----------------------------------------------------------------------------
(* EmotionAnalyzer.preprocess_text *)

\* preprocess_text with {3,} for {2,} in the last pattern: only a run of four
\* or more is reduced.
preprocess_text_four(v) ==
    IF ~Truthy(v) \/ ~IsStr(v) THEN <<>>
    ELSE LET stripped == Strip(Lower(v.value))
             bangs    == CollapseFrom(stripped, 1, {"!"}, FALSE, 2, 1)
             marks    == CollapseFrom(bangs, 1, {"?"}, FALSE, 2, 1)
         IN  CollapseFrom(marks, 1, {"\n"}, TRUE, 4, 2)

\* re.sub(r'(.)\1{2}', r'\1\1', s) from position i: every three copies of
\* one character other than the newline become two.
RECURSIVE CollapseTriplesFrom(_, _)
CollapseTriplesFrom(s, i) ==
    IF i > Len(s) THEN <<>>
    ELSE IF s[i] # "\n" /\ RunLength(s, i) >= 3
         THEN <<s[i], s[i]>> \o CollapseTriplesFrom(s, i + 3)
         ELSE <<s[i]>> \o CollapseTriplesFrom(s, i + 1)

\* preprocess_text with {2} for {2,} in the last pattern.
preprocess_text_triples(v) ==
    IF ~Truthy(v) \/ ~IsStr(v) THEN <<>>
    ELSE LET stripped == Strip(Lower(v.value))
             bangs    == CollapseFrom(stripped, 1, {"!"}, FALSE, 2, 1)
             marks    == CollapseFrom(bangs, 1, {"?"}, FALSE, 2, 1)
         IN  CollapseTriplesFrom(marks, 1)

\* Lines 68-83: lower().strip(), then the three re.sub calls; '.' in the
\* last pattern matches every character but the newline.
preprocess_text(v) ==
    IF ~Truthy(v) \/ ~IsStr(v) THEN <<>>
    ELSE LET stripped == Strip(Lower(v.value))
             bangs    == CollapseFrom(stripped, 1, {"!"}, FALSE, 2, 1)
             marks    == CollapseFrom(bangs, 1, {"?"}, FALSE, 2, 1)
         IN  CollapseFrom(marks, 1, {"\n"}, TRUE, 3, 2)

----------------------------------------------------------------------------
(* EmotionAnalyzer.analyze_emotion_patterns *)

\* Some element of the list occurs in the text: the for/if/break loops of
\* lines 124-127 and 130-133.
AnyIn(words, s) == \E i \in 1..Len(words) : Contains(s, words[i])

\* Intensify with the factor lost.
IntensifyNone(base_score) == base_score

\* base_score *= 1.5
Intensify(base_score) == (base_score * 3) \div 2

\* Diminish with the factor lost.
DiminishNone(base_score) == base_score

\* base_score *= 0.7
Diminish(base_score) == (base_score * 7) \div 10

\* PatternContribution with the diminisher loop under an else: a diminisher
\* counts only when no intensifier was found.
PatternContributionExclusive(pattern, s) ==
    LET matches == FindAllCount(pattern, s)
    IN  IF matches = 0 THEN 0
        ELSE LET base_score == matches * MatchScore
             IN  IF AnyIn(intensifiers, s) THEN (base_score * 3) \div 2
                 ELSE IF AnyIn(diminishers, s) THEN (base_score * 7) \div 10
                 ELSE base_score

\* The body of the loop over one category's patterns (lines 118-135): what
\* one pattern adds to emotion_scores[emotion].
PatternContribution(pattern, s) ==
    LET matches == FindAllCount(pattern, s)
    IN  IF matches = 0 THEN 0
        ELSE LET base_score  == matches * MatchScore
                 intensified == IF AnyIn(intensifiers, s)
                                THEN Intensify(base_score) ELSE base_score
             IN  IF AnyIn(diminishers, s)
                 THEN Diminish(intensified) ELSE intensified

\* SumContributions with = for +=: the last matching group's contribution
\* replaces the earlier ones.
RECURSIVE SumContributionsLast(_, _, _)
SumContributionsLast(patterns, s, i) ==
    IF i > Len(patterns) THEN 0
    ELSE LET later == SumContributionsLast(patterns, s, i + 1)
         IN  IF later # 0 THEN later ELSE PatternContribution(patterns[i], s)

\* The loop over one category's patterns (lines 117-135): emotion_scores[emotion]
\* starts at 0 (line 113) and every group's contribution is added to it.
RECURSIVE SumContributions(_, _, _)
SumContributions(patterns, s, i) ==
    IF i > Len(patterns) THEN 0
    ELSE PatternContribution(patterns[i], s) + SumContributions(patterns, s, i + 1)

analyze_emotion_patterns(s) ==
    [emotion \in EmotionSet |-> SumContributions(emotion_patterns[emotion], s, 1)]

----------------------------------------------------------------------------
(* EmotionAnalyzer.classify_emotion *)

\* 0.5: a pattern score above it decides the emotion (line 149).
StrongPattern == 500
\* 1.0 (lines 151, 162, 165).
One == 1000

\* MaxFrom with >= for >: the last of equal items wins.
RECURSIVE MaxFromLast(_, _, _)
MaxFromLast(scores, best, i) ==
    IF i > Len(Emotions) THEN best
    ELSE MaxFromLast(scores,
                     IF scores[Emotions[i]] >= scores[best] THEN Emotions[i] ELSE best,
                     i + 1)

\* max(pattern_scores.items(), key=lambda x: x[1]): the items are visited in
\* insertion order and a later one replaces the best only when greater.
RECURSIVE MaxFrom(_, _, _)
MaxFrom(scores, best, i) ==
    IF i > Len(Emotions) THEN best
    ELSE MaxFrom(scores,
                 IF scores[Emotions[i]] > scores[best] THEN Emotions[i] ELSE best,
                 i + 1)

max_pattern_emotion(scores) == MaxFrom(scores, Emotions[1], 2)

\* confidence = max(0.0, min(1.0, confidence))
Clamp(confidence) == Max(0, Min(One, confidence))

\* IsStrongPattern with the threshold 1.0.
IsStrongPatternAboveOne(score) == score > 1000

\* Line 149: a strong pattern match.
IsStrongPattern(score) == score > StrongPattern

\* The two conditions with `and` for `or`.
PositiveConditionBoth(compound, polarity) == compound >= 500 /\ polarity >= 300
NegativeConditionBoth(compound, polarity) == compound <= -500 /\ polarity <= -300

\* NegativeCondition with compound < -0.5 for compound <= -0.5.
NegativeConditionStrict(compound, polarity) == compound < -500 \/ polarity <= -300

\* Lines 154 and 157: the conditions of the two sentiment branches.
PositiveCondition(compound, polarity) == compound >= 500 \/ polarity >= 300
NegativeCondition(compound, polarity) == compound <= -500 \/ polarity <= -300

\* Lines 156 and 159: abs(compound) if compound != 0 else abs(polarity)
SentimentConfidence(compound, polarity) ==
    IF compound # 0 THEN Abs(compound) ELSE Abs(polarity)

\* NeutralConfidence without abs.
NeutralConfidenceSigned(compound) == 1000 - compound

\* Line 162: 1.0 - abs(compound)
NeutralConfidence(compound) == One - Abs(compound)

\* SentimentClass with the label 'negative' for the weaker negative case.
SentimentClassNegativeLabel(compound, polarity) ==
    IF PositiveCondition(compound, polarity)
    THEN [emotion |-> IF compound >= 700 \/ polarity >= 500
                      THEN "happy" ELSE "positive",
          confidence |-> SentimentConfidence(compound, polarity)]
    ELSE IF NegativeCondition(compound, polarity)
    THEN [emotion |-> IF compound <= -700 \/ polarity <= -500
                      THEN "angry" ELSE "negative",
          confidence |-> SentimentConfidence(compound, polarity)]
    ELSE [emotion |-> "neutral", confidence |-> NeutralConfidence(compound)]

\* SentimentClass with the negative test before the positive one.
SentimentClassNegativeFirst(compound, polarity) ==
    IF NegativeCondition(compound, polarity)
    THEN [emotion |-> IF compound <= -700 \/ polarity <= -500
                      THEN "angry" ELSE "sad",
          confidence |-> SentimentConfidence(compound, polarity)]
    ELSE IF PositiveCondition(compound, polarity)
    THEN [emotion |-> IF compound >= 700 \/ polarity >= 500
                      THEN "happy" ELSE "positive",
          confidence |-> SentimentConfidence(compound, polarity)]
    ELSE [emotion |-> "neutral", confidence |-> NeutralConfidence(compound)]

\* The sentiment branch, lines 154-162.
SentimentClass(compound, polarity) ==
    IF PositiveCondition(compound, polarity)
    THEN [emotion |-> IF compound >= 700 \/ polarity >= 500
                      THEN "happy" ELSE "positive",
          confidence |-> SentimentConfidence(compound, polarity)]
    ELSE IF NegativeCondition(compound, polarity)
    THEN [emotion |-> IF compound <= -700 \/ polarity <= -500
                      THEN "angry" ELSE "sad",
          confidence |-> SentimentConfidence(compound, polarity)]
    ELSE [emotion |-> "neutral", confidence |-> NeutralConfidence(compound)]

\* classify_emotion with neither min(max_pattern_score, 1.0) nor the final
\* clamp.
classify_emotion_unclamped(vader, textblob, patterns) ==
    LET best == max_pattern_emotion(patterns)
    IN  IF IsStrongPattern(patterns[best])
        THEN [emotion |-> best, confidence |-> patterns[best]]
        ELSE SentimentClass(vader.compound, textblob.polarity)

classify_emotion(vader, textblob, patterns) ==
    LET compound == vader.compound
        polarity == textblob.polarity
        best     == max_pattern_emotion(patterns)
        chosen   == IF IsStrongPattern(patterns[best])
                    THEN [emotion |-> best,
                          confidence |-> Min(patterns[best], One)]
                    ELSE SentimentClass(compound, polarity)
    IN  [emotion |-> chosen.emotion, confidence |-> Clamp(chosen.confidence)]

----------------------------------------------------------------------------
(* The inputs of the model *)

\* Words the inputs are built from: a match in one group ("happy"), in two
\* groups of one category ("hate", "scared"), in one group of two categories
\* (U+1F631), a match that holds the intensifier "so" ("sob"), an intensifier,
\* a diminisher, and a word no pattern matches.
Vocabulary ==
    { Chars("happy"), Chars("hate"), Chars("scared"), Chars("sob"),
      Chars("very"), Chars("slightly"), Chars("ok"), <<"U+1F631">> }

\* The texts of 1..n words, the words separated by one space.
RECURSIVE TextsOfWords(_)
TextsOfWords(n) ==
    IF n <= 1 THEN Vocabulary
    ELSE LET shorter == TextsOfWords(n - 1)
         IN  shorter \cup {t \o <<" ">> \o w : t \in shorter, w \in Vocabulary}

\* Texts that are not lists of vocabulary words: blank ones, runs of repeated
\* characters (letters, '!', '?', blanks, newlines), and two of the messages
\* of the module's own example run (lines 222-230).
FixedTexts ==
    { <<>>, Chars("   "), Chars(" \t\n"), Chars("  Sooooo HAPPY!!!  "),
      Chars("Just a normal day, nothing special."),
      Chars("I'm so happy today! This is amazing!"),
      Chars("What???   No!!!! ?!?!"),
      Chars("\n\nWow\n\n\n\nok  ") }

StrInputs == {Str(t) : t \in TextsOfWords(MaxWords) \cup FixedTexts}

Inputs == StrInputs \cup {NoneValue, IntZero, IntFortyTwo}

\* analyze_emotion_patterns over the normalized inputs, computed once.
NormalizedTexts == {preprocess_text(v) : v \in Inputs}
PatternScoresOf == [s \in NormalizedTexts |-> analyze_emotion_patterns(s)]

----------------------------------------------------------------------------
(* The library scorers *)

\* SentimentIntensityAnalyzer.polarity_scores: compound in [-1, 1].
CompoundValues == {-1000, -700, -500, -300, 0, 300, 500, 700, 1000}

polarity_scores(compound) ==
    [compound |-> compound,
     pos |-> Max(compound, 0),
     neg |-> Max(-compound, 0),
     neu |-> One - Abs(compound)]

\* TextBlob(text).sentiment: <<polarity, subjectivity>>, polarity in [-1, 1]
\* and subjectivity in [0, 1].
SentimentValues ==
    { <<-1000, 1000>>, <<-500, 600>>, <<-300, 300>>, <<0, 0>>, <<0, 1000>>,
      <<300, 500>>, <<500, 1000>>, <<1000, 1000>> }

----------------------------------------------------------------------------
(* EmotionAnalyzer.analyze, step by step *)

NotSet == <<>>

DefaultVaderScores ==
    [compound |-> 0, positive |-> 0, negative |-> 0, neutral |-> One]

DefaultTextBlobScores == [polarity |-> 0, subjectivity |-> 0]

ZeroPatternScores == [emotion \in EmotionSet |-> 0]

\* The result of lines 172-179.
DefaultResult ==
    [emotion |-> "neutral",
     confidence |-> 500,
     polarity |-> 0,
     subjectivity |-> 0,
     vader_scores |-> DefaultVaderScores,
     pattern_scores |-> ZeroPatternScores]

\* IsBlank without the test of text.strip().
IsBlankNoStrip(v) == ~Truthy(v) \/ ~IsStr(v)

\* The condition of line 171.
IsBlank(v) == ~Truthy(v) \/ ~IsStr(v) \/ Len(Strip(v.value)) = 0

\* No analyze call is running.
AnalyzerInit ==
    /\ pc = "idle"
    /\ text = NotSet
    /\ processed_text = NotSet
    /\ vader_scores = NotSet
    /\ textblob_scores = NotSet
    /\ pattern_scores = NotSet
    /\ result = NotSet
    /\ invoked = {}
    /\ logged = {}

\* get_emotion_emoji has not been called.
EmojiInit ==
    /\ emoji_arg = NotSet
    /\ emoji_result = NotSet

\* A consumer is connected and has received nothing; the tables and the
\* room group are empty.
ConsumerInit ==
    /\ consumer_pc = "waiting"
    /\ text_data = NotSet
    /\ message_content = NotSet
    /\ message = NotSet
    /\ raising = NotSet
    /\ consumer_logged = {}
    /\ db_messages = <<>>
    /\ db_emotion_logs = <<>>
    /\ room_updated_at = 0
    /\ last_read_at = FALSE
    /\ group_events = <<>>
    /\ frames_received = 0

\* The locals of an analyze call that is not running.
IdleCall ==
    [pc |-> "idle", text |-> NotSet, processed_text |-> NotSet,
     vader_scores |-> NotSet, textblob_scores |-> NotSet, emotion_scores |-> 0,
     next_emotion |-> 0, result |-> NotSet, logged |-> {}]

\* The attributes __init__ sets (lines 31-66).
ConstructedConfig ==
    [emotion_patterns |-> emotion_patterns,
     intensifiers |-> intensifiers,
     diminishers |-> diminishers]

\* The analyzer is constructed, no call is running and no dict is allocated.
CallsInit ==
    /\ config = ConstructedConfig
    /\ calls = [c \in 1..NumCalls |-> IdleCall]
    /\ heap = [id \in 1..NumCalls |-> NotSet]

\* No websocket connection has been made, and there is no room.
ConnectionInit ==
    /\ db_rooms = {}
    /\ db_memberships = {}
    /\ consumers = <<>>
    /\ groups = <<>>
    /\ inboxes = <<>>
    /\ sockets = <<>>
    /\ group_sends = <<>>

Init ==
    /\ AnalyzerInit
    /\ EmojiInit
    /\ ConsumerInit
    /\ CallsInit
    /\ library = NotSet
    /\ ConnectionInit

\* A caller calls analyze(v).
AnalyzeCall(v) ==
    /\ pc = "idle"
    /\ pc' = "entered"
    /\ text' = v
    /\ processed_text' = NotSet
    /\ vader_scores' = NotSet
    /\ textblob_scores' = NotSet
    /\ pattern_scores' = NotSet
    /\ result' = NotSet
    /\ invoked' = {}
    /\ logged' = {}
    /\ UNCHANGED other_vars

\* Lines 171-179.
AnalyzeBlank ==
    /\ pc = "entered"
    /\ IsBlank(text)
    /\ result' = DefaultResult
    /\ pc' = "returned"
    /\ UNCHANGED <<text, processed_text, vader_scores, textblob_scores,
                   pattern_scores, invoked, logged>>
    /\ UNCHANGED other_vars

\* Line 182.
Preprocess ==
    /\ pc = "entered"
    /\ ~IsBlank(text)
    /\ processed_text' = preprocess_text(text)
    /\ invoked' = invoked \cup {"preprocess_text"}
    /\ pc' = "preprocessed"
    /\ UNCHANGED <<text, vader_scores, textblob_scores, pattern_scores,
                   result, logged>>
    /\ UNCHANGED other_vars

\* analyze_with_vader without its except clause: the library's exception
\* leaves analyze.
AnalyzeWithVaderUnhandled ==
    /\ pc = "preprocessed"
    /\ \/ \E compound \in CompoundValues :
            LET scores == polarity_scores(compound)
            IN  /\ vader_scores' = [compound |-> scores.compound,
                                    positive |-> scores.pos,
                                    negative |-> scores.neg,
                                    neutral |-> scores.neu]
                /\ pc' = "vader_done"
       \/ /\ vader_scores' = vader_scores
          /\ pc' = "raised"
    /\ invoked' = invoked \cup {"analyze_with_vader"}
    /\ UNCHANGED <<text, processed_text, textblob_scores, pattern_scores,
                   result, logged>>
    /\ UNCHANGED other_vars

\* Line 185, analyze_with_vader: the library returns scores, or raises and
\* the handler logs and returns the default.
AnalyzeWithVader ==
    /\ pc = "preprocessed"
    /\ \/ \E compound \in CompoundValues :
            LET scores == polarity_scores(compound)
            IN  /\ vader_scores' = [compound |-> scores.compound,
                                    positive |-> scores.pos,
                                    negative |-> scores.neg,
                                    neutral |-> scores.neu]
                /\ logged' = logged
       \/ /\ vader_scores' = DefaultVaderScores
          /\ logged' = logged \cup {"VADER analysis error"}
    /\ invoked' = invoked \cup {"analyze_with_vader"}
    /\ pc' = "vader_done"
    /\ UNCHANGED <<text, processed_text, textblob_scores, pattern_scores,
                   result>>
    /\ UNCHANGED other_vars

\* analyze_with_textblob without its except clause: the library's exception
\* leaves analyze.
AnalyzeWithTextBlobUnhandled ==
    /\ pc = "vader_done"
    /\ \/ \E sentiment \in SentimentValues :
            /\ textblob_scores' = [polarity |-> sentiment[1],
                                   subjectivity |-> sentiment[2]]
            /\ pc' = "textblob_done"
       \/ /\ textblob_scores' = textblob_scores
          /\ pc' = "raised"
    /\ invoked' = invoked \cup {"analyze_with_textblob"}
    /\ UNCHANGED <<text, processed_text, vader_scores, pattern_scores, result,
                   logged>>
    /\ UNCHANGED other_vars

\* Line 186, analyze_with_textblob.
AnalyzeWithTextBlob ==
    /\ pc = "vader_done"
    /\ \/ \E sentiment \in SentimentValues :
            /\ textblob_scores' = [polarity |-> sentiment[1],
                                   subjectivity |-> sentiment[2]]
            /\ logged' = logged
       \/ /\ textblob_scores' = DefaultTextBlobScores
          /\ logged' = logged \cup {"TextBlob analysis error"}
    /\ invoked' = invoked \cup {"analyze_with_textblob"}
    /\ pc' = "textblob_done"
    /\ UNCHANGED <<text, processed_text, vader_scores, pattern_scores, result>>
    /\ UNCHANGED other_vars

\* Line 187.
AnalyzeEmotionPatterns ==
    /\ pc = "textblob_done"
    /\ pattern_scores' = PatternScoresOf[processed_text]
    /\ invoked' = invoked \cup {"analyze_emotion_patterns"}
    /\ pc' = "patterns_done"
    /\ UNCHANGED <<text, processed_text, vader_scores, textblob_scores,
                   result, logged>>
    /\ UNCHANGED other_vars

\* Lines 190-199.
ClassifyAndReturn ==
    /\ pc = "patterns_done"
    /\ LET classified ==
               classify_emotion(vader_scores, textblob_scores, pattern_scores)
       IN  result' = [emotion |-> classified.emotion,
                      confidence |-> classified.confidence,
                      polarity |-> textblob_scores.polarity,
                      subjectivity |-> textblob_scores.subjectivity,
                      vader_scores |-> vader_scores,
                      pattern_scores |-> pattern_scores]
    /\ invoked' = invoked \cup {"classify_emotion"}
    /\ pc' = "returned"
    /\ UNCHANGED <<text, processed_text, vader_scores, textblob_scores,
                   pattern_scores, logged>>
    /\ UNCHANGED other_vars

\* The caller takes the result; the locals of the call are gone.
AnalyzeDone ==
    /\ pc = "returned"
    /\ pc' = "idle"
    /\ text' = NotSet
    /\ processed_text' = NotSet
    /\ vader_scores' = NotSet
    /\ textblob_scores' = NotSet
    /\ pattern_scores' = NotSet
    /\ result' = NotSet
    /\ invoked' = {}
    /\ logged' = {}
    /\ UNCHANGED other_vars

Next ==
    \/ \E v \in Inputs : AnalyzeCall(v)
    \/ AnalyzeBlank
    \/ Preprocess
    \/ AnalyzeWithVader
    \/ AnalyzeWithTextBlob
    \/ AnalyzeEmotionPatterns
    \/ ClassifyAndReturn
    \/ AnalyzeDone

Spec == Init /\ [][Next]_vars

----------------------------------------------------------------------------
(* EmotionAnalyzer.preprocess_text, called on its own output *)

\* The characters of the short texts: a letter in both cases, the two
\* punctuation marks of lines 77-78, a blank and a newline.
Alphabet == {"a", "A", "!", "?", " ", "\n"}

\* Every text of at most MaxChars characters of the alphabet.
ShortTexts == UNION {[1..n -> Alphabet] : n \in 0..MaxChars}

PreprocessInputs == Inputs \cup {Str(t) : t \in ShortTexts}

\* A caller calls preprocess_text(v); processed_text is what it returns.
PreprocessText(v) ==
    /\ pc = "idle"
    /\ text' = v
    /\ processed_text' = preprocess_text(v)
    /\ pc' = "normalized"
    /\ UNCHANGED <<vader_scores, textblob_scores, pattern_scores, result,
                   invoked, logged>>
    /\ UNCHANGED other_vars

\* The caller calls preprocess_text on the string the first call returned.
PreprocessAgain ==
    /\ pc = "normalized"
    /\ text' = Str(processed_text)
    /\ processed_text' = preprocess_text(Str(processed_text))
    /\ pc' = "normalized_twice"
    /\ UNCHANGED <<vader_scores, textblob_scores, pattern_scores, result,
                   invoked, logged>>
    /\ UNCHANGED other_vars

NextPreprocess ==
    \/ \E v \in PreprocessInputs : PreprocessText(v)
    \/ PreprocessAgain

SpecPreprocess == Init /\ [][NextPreprocess]_vars

----------------------------------------------------------------------------
(* EmotionAnalyzer.get_emotion_emoji *)

\* emoji_map, lines 203-213.
emoji_map ==
    [happy     |-> "U+1F60A",
     sad       |-> "U+1F622",
     angry     |-> "U+1F620",
     surprised |-> "U+1F632",
     fearful   |-> "U+1F628",
     disgusted |-> "U+1F922",
     neutral   |-> "U+1F610",
     positive  |-> "U+1F642",
     negative  |-> "U+1F61E"]

\* The key of emoji_map equal to the value v, if there is one: a str equals
\* a key when it has the same characters, and no other value equals a str.
KeysEqualTo(v) == {k \in DOMAIN emoji_map : IsStr(v) /\ v.value = Chars(k)}

\* get_emotion_emoji with emoji_map[emotion] for emoji_map.get(emotion, ...).
get_emotion_emoji_subscript(v) ==
    IF KeysEqualTo(v) # {}
    THEN Str(<<emoji_map[CHOOSE k \in KeysEqualTo(v) : TRUE]>>)
    ELSE [type |-> "KeyError", value |-> v.value]

\* Line 214: emoji_map.get(emotion, <U+1F610>).
get_emotion_emoji(v) ==
    IF KeysEqualTo(v) # {}
    THEN Str(<<emoji_map[CHOOSE k \in KeysEqualTo(v) : TRUE]>>)
    ELSE Str(<<"U+1F610">>)

\* The arguments of the model: the nine labels and other words, bare and with
\* something before or after them, and three values that are not strings.
EmojiWords ==
    {Chars(k) : k \in DOMAIN emoji_map}
        \cup {<<>>, Chars("unknown_label"), Chars("HAPPY"), Chars("Neutral")}

EmojiInputs ==
    {Str(a \o w \o b) : a \in {<<>>, <<" ">>, Chars("un")},
                        w \in EmojiWords,
                        b \in {<<>>, <<" ">>, <<"s">>, <<"!">>}}
        \cup {NoneValue, IntZero, IntFortyTwo}

\* A caller calls get_emotion_emoji(v); the method reads its own literal and
\* nothing of the analyzer.
GetEmotionEmoji(v) ==
    /\ emoji_arg' = v
    /\ emoji_result' = get_emotion_emoji(v)
    /\ UNCHANGED <<analyzer_vars, consumer_vars, calls_vars, connection_vars>>

NextEmoji == \E v \in EmojiInputs : GetEmotionEmoji(v)

SpecEmoji == Init /\ [][NextEmoji]_vars

----------------------------------------------------------------------------
(* ChatConsumer.receive and handle_chat_message (consumers.py) for one      *)
(* connected consumer, with the rows it creates and the events it sends.    *)
(* The database and the channel layer are outside the repository: each call *)
(* to them succeeds or raises.                                              *)

\* Message.emotion_emoji (models.py, lines 202-212), the characters as they
\* are in the source file.
emotion_emojis ==
    [happy     |-> <<"U+00F0", "U+0178", "U+02DC", "U+0160">>,
     sad       |-> <<"U+00F0", "U+0178", "U+02DC", "U+00A2">>,
     angry     |-> <<"U+00F0", "U+0178", "U+02DC", "U+00A0">>,
     surprised |-> <<"U+00F0", "U+0178", "U+02DC", "U+00B2">>,
     fearful   |-> <<"U+00F0", "U+0178", "U+02DC", "U+00A8">>,
     disgusted |-> <<>>,
     neutral   |-> <<"U+00F0", "U+0178", "U+02DC">>,
     positive  |-> <<>>,
     negative  |-> <<"U+00F0", "U+0178", "U+02DC", "U+017E">>]

\* models.py, line 213.
emotion_emoji(emotion) ==
    IF emotion \in DOMAIN emotion_emojis THEN emotion_emojis[emotion]
    ELSE <<"U+00F0", "U+0178", "U+02DC">>

\* dict.get(key, default)
Get(d, key, default) == IF key \in DOMAIN d THEN d[key] ELSE default

\* A frame that json.loads turns into a dict, and one it rejects.
JsonObject(fields) == [json |-> "object", fields |-> fields]
InvalidJson == [json |-> "invalid", fields |-> <<>>]

\* The frames of the model: a chat message with blanks around its text, one
\* without 'type', a blank one, one without 'message', one whose 'message'
\* is a number, a typing indicator, a read receipt, an unknown type, and a
\* frame that is not JSON.
Frames ==
    { JsonObject([type |-> Str(Chars("message")),
                  message |-> Str(Chars("  hate  "))]),
      JsonObject([message |-> Str(Chars("ok"))]),
      JsonObject([type |-> Str(Chars("message")), message |-> Str(Chars("   "))]),
      JsonObject([type |-> Str(Chars("message"))]),
      JsonObject([type |-> Str(Chars("message")), message |-> IntFortyTwo]),
      JsonObject([type |-> Str(Chars("typing")), is_typing |-> TRUE]),
      JsonObject([type |-> Str(Chars("read_receipt"))]),
      JsonObject([type |-> Str(Chars("ping"))]),
      InvalidJson }

\* Line 99.
message_type == Get(text_data.fields, "type", Str(Chars("message")))

\* The framework calls receive(text_data).
Receive(frame) ==
    /\ consumer_pc = "waiting"
    /\ frames_received < MaxFrames
    /\ consumer_pc' = "received"
    /\ text_data' = frame
    /\ frames_received' = frames_received + 1
    /\ UNCHANGED <<message_content, message, raising, consumer_logged,
                   db_messages, db_emotion_logs, room_updated_at, last_read_at,
                   group_events>>
    /\ UNCHANGED <<analyzer_vars, emoji_vars, calls_vars, connection_vars>>

\* Lines 98 and 110-111: json.loads raises JSONDecodeError.
ReceiveInvalidJson ==
    /\ consumer_pc = "received"
    /\ text_data.json = "invalid"
    /\ consumer_logged' = consumer_logged
            \cup {[level |-> "error", msg |-> "Invalid JSON received"]}
    /\ consumer_pc' = "returned"
    /\ UNCHANGED <<text_data, message_content, message, raising, db_messages,
                   db_emotion_logs, room_updated_at, last_read_at, group_events,
                   frames_received>>
    /\ UNCHANGED <<analyzer_vars, emoji_vars, calls_vars, connection_vars>>

\* Lines 107-108.
ReceiveUnknownType ==
    /\ consumer_pc = "received"
    /\ text_data.json = "object"
    /\ message_type \notin {Str(Chars("message")), Str(Chars("typing")),
                            Str(Chars("read_receipt"))}
    /\ consumer_logged' = consumer_logged
            \cup {[level |-> "warning", msg |-> "Unknown message type"]}
    /\ consumer_pc' = "returned"
    /\ UNCHANGED <<text_data, message_content, message, raising, db_messages,
                   db_emotion_logs, room_updated_at, last_read_at, group_events,
                   frames_received>>
    /\ UNCHANGED <<analyzer_vars, emoji_vars, calls_vars, connection_vars>>

\* Lines 103-104 and 158-169: the event is sent to the group, or the channel
\* layer raises.
HandleTypingIndicator ==
    /\ consumer_pc = "received"
    /\ text_data.json = "object"
    /\ message_type = Str(Chars("typing"))
    /\ \/ /\ group_events' = Append(group_events,
                    [type |-> "typing_indicator",
                     is_typing |-> Get(text_data.fields, "is_typing", FALSE)])
          /\ consumer_pc' = "returned"
          /\ raising' = raising
       \/ /\ raising' = "group_send"
          /\ consumer_pc' = "raising"
          /\ group_events' = group_events
    /\ UNCHANGED <<text_data, message_content, message, consumer_logged,
                   db_messages, db_emotion_logs, room_updated_at, last_read_at,
                   frames_received>>
    /\ UNCHANGED <<analyzer_vars, emoji_vars, calls_vars, connection_vars>>

\* Lines 105-106, 171-173 and 286-294: the membership row is updated, or it
\* does not exist and nothing happens, or the database raises.
HandleReadReceipt ==
    /\ consumer_pc = "received"
    /\ text_data.json = "object"
    /\ message_type = Str(Chars("read_receipt"))
    /\ \/ /\ last_read_at' = TRUE
          /\ consumer_pc' = "returned"
          /\ raising' = raising
       \/ /\ last_read_at' = last_read_at
          /\ consumer_pc' = "returned"
          /\ raising' = raising
       \/ /\ raising' = "update_last_read_timestamp"
          /\ consumer_pc' = "raising"
          /\ last_read_at' = last_read_at
    /\ UNCHANGED <<text_data, message_content, message, consumer_logged,
                   db_messages, db_emotion_logs, room_updated_at, group_events,
                   frames_received>>
    /\ UNCHANGED <<analyzer_vars, emoji_vars, calls_vars, connection_vars>>

\* Lines 101-102 and 117-123: data.get('message', '').strip() raises for a
\* value that is not a str; an empty content returns; otherwise analyze is
\* called with the content.
HandleChatMessage ==
    /\ consumer_pc = "received"
    /\ text_data.json = "object"
    /\ message_type = Str(Chars("message"))
    /\ pc = "idle"
    /\ LET raw == Get(text_data.fields, "message", Str(<<>>))
       IN  IF ~IsStr(raw)
           THEN /\ raising' = "strip"
                /\ consumer_pc' = "raising"
                /\ UNCHANGED <<message_content, pc, text>>
           ELSE IF ~Truthy(Str(Strip(raw.value)))
           THEN /\ message_content' = Strip(raw.value)
                /\ consumer_pc' = "returned"
                /\ UNCHANGED <<raising, pc, text>>
           ELSE /\ message_content' = Strip(raw.value)
                /\ consumer_pc' = "analyzing"
                /\ pc' = "entered"
                /\ text' = Str(Strip(raw.value))
                /\ raising' = raising
    /\ UNCHANGED <<processed_text, vader_scores, textblob_scores,
                   pattern_scores, result, invoked, logged>>
    /\ UNCHANGED <<text_data, message, consumer_logged, db_messages,
                   db_emotion_logs, room_updated_at, last_read_at, group_events,
                   frames_received>>
    /\ UNCHANGED <<emoji_vars, calls_vars, connection_vars>>

\* Lines 126-134, 243-254 and models.py 235-239: analyze has returned; the
\* Message is created from its result and the room's updated_at follows, or
\* the database raises.
SaveMessage ==
    /\ consumer_pc = "analyzing"
    /\ pc = "returned"
    /\ \/ LET created ==
                  [id |-> Len(db_messages) + 1,
                   content |-> message_content,
                   emotion |-> result.emotion,
                   emotion_confidence |-> result.confidence,
                   sentiment_polarity |-> result.polarity,
                   sentiment_subjectivity |-> result.subjectivity]
          IN  /\ db_messages' = Append(db_messages, created)
              /\ message' = created
              /\ room_updated_at' = created.id
              /\ consumer_pc' = "message_saved"
              /\ raising' = raising
       \/ /\ raising' = "save_message"
          /\ consumer_pc' = "raising"
          /\ UNCHANGED <<db_messages, message, room_updated_at>>
    /\ UNCHANGED <<text_data, message_content, consumer_logged,
                   db_emotion_logs, last_read_at, group_events,
                   frames_received>>
    /\ UNCHANGED <<analyzer_vars, emoji_vars, calls_vars, connection_vars>>

\* Lines 137 and 256-275.
SaveEmotionLog ==
    /\ consumer_pc = "message_saved"
    /\ \/ LET scores == Get(result, "pattern_scores", <<>>)
          IN  /\ db_emotion_logs' = Append(db_emotion_logs,
                      [message |-> message.id,
                       scores |-> [e \in EmotionSet |-> Get(scores, e, 0)],
                       message_length |-> Len(message.content)])
              /\ consumer_pc' = "log_saved"
              /\ raising' = raising
       \/ /\ raising' = "save_emotion_log"
          /\ consumer_pc' = "raising"
          /\ db_emotion_logs' = db_emotion_logs
    /\ UNCHANGED <<text_data, message_content, message, consumer_logged,
                   db_messages, room_updated_at, last_read_at, group_events,
                   frames_received>>
    /\ UNCHANGED <<analyzer_vars, emoji_vars, calls_vars, connection_vars>>

\* The event of lines 142-154, built from a Message.
ChatMessageEvent(m) ==
    [type |-> "chat_message",
     message |-> [id |-> m.id,
                  content |-> m.content,
                  emotion |-> m.emotion,
                  emotion_emoji |-> emotion_emoji(m.emotion),
                  emotion_confidence |-> m.emotion_confidence]]

\* GroupSend moved before the two saves: the event is built from the result
\* of analyze and sent as soon as analyze has returned.
GroupSendBeforeSave ==
    /\ \/ /\ consumer_pc = "log_saved"
          /\ group_events' = Append(group_events, ChatMessageEvent(message))
       \/ /\ consumer_pc = "analyzing"
          /\ pc = "returned"
          /\ group_events' = Append(group_events,
                  ChatMessageEvent([id |-> Len(db_messages) + 1,
                                    content |-> message_content,
                                    emotion |-> result.emotion,
                                    emotion_confidence |-> result.confidence]))
    /\ consumer_pc' = "returned"
    /\ UNCHANGED <<text_data, message_content, message, raising,
                   consumer_logged, db_messages, db_emotion_logs,
                   room_updated_at, last_read_at, frames_received>>
    /\ UNCHANGED <<analyzer_vars, emoji_vars, calls_vars, connection_vars>>

\* Lines 140-156: the event is built from the Message created and sent to
\* the room group, or building it or sending it raises.
GroupSend ==
    /\ consumer_pc = "log_saved"
    /\ \/ /\ group_events' = Append(group_events, ChatMessageEvent(message))
          /\ consumer_pc' = "returned"
          /\ raising' = raising
       \/ /\ raising' = "group_send"
          /\ consumer_pc' = "raising"
          /\ group_events' = group_events
    /\ UNCHANGED <<text_data, message_content, message, consumer_logged,
                   db_messages, db_emotion_logs, room_updated_at, last_read_at,
                   frames_received>>
    /\ UNCHANGED <<analyzer_vars, emoji_vars, calls_vars, connection_vars>>

\* Lines 112-113: an exception raised under receive, by a handler or by
\* analyze, is logged and receive returns.
ReceiveExcept ==
    /\ \/ consumer_pc = "raising"
       \/ consumer_pc = "analyzing" /\ pc = "raised"
    /\ consumer_logged' = consumer_logged
            \cup {[level |-> "error", msg |-> "Error processing message",
                   e |-> IF pc = "raised" THEN "analyze" ELSE raising]}
    /\ raising' = NotSet
    /\ consumer_pc' = "returned"
    /\ UNCHANGED <<text_data, message_content, message, db_messages,
                   db_emotion_logs, room_updated_at, last_read_at, group_events,
                   frames_received>>
    /\ UNCHANGED <<analyzer_vars, emoji_vars, calls_vars, connection_vars>>

\* receive is over: its locals and those of the analyze call are gone.
ReceiveDone ==
    /\ consumer_pc = "returned"
    /\ consumer_pc' = "waiting"
    /\ text_data' = NotSet
    /\ message_content' = NotSet
    /\ message' = NotSet
    /\ consumer_logged' = {}
    /\ pc' = "idle"
    /\ text' = NotSet
    /\ processed_text' = NotSet
    /\ vader_scores' = NotSet
    /\ textblob_scores' = NotSet
    /\ pattern_scores' = NotSet
    /\ result' = NotSet
    /\ invoked' = {}
    /\ logged' = {}
    /\ UNCHANGED <<raising, db_messages, db_emotion_logs, room_updated_at,
                   last_read_at, group_events, frames_received>>
    /\ UNCHANGED <<emoji_vars, calls_vars, connection_vars>>

\* The consumer never calls analyze with a blank text (line 119), so the
\* short-circuit of analyze is not a step here.
NextConsumer ==
    \/ \E frame \in Frames : Receive(frame)
    \/ ReceiveInvalidJson
    \/ ReceiveUnknownType
    \/ HandleTypingIndicator
    \/ HandleReadReceipt
    \/ HandleChatMessage
    \/ Preprocess
    \/ AnalyzeWithVader
    \/ AnalyzeWithTextBlob
    \/ AnalyzeEmotionPatterns
    \/ ClassifyAndReturn
    \/ SaveMessage
    \/ SaveEmotionLog
    \/ GroupSend
    \/ ReceiveExcept
    \/ ReceiveDone

SpecConsumer == Init /\ [][NextConsumer]_vars

----------------------------------------------------------------------------
(* analyze calls that run in parallel on one EmotionAnalyzer.  Each call   *)
(* has its own locals; a dict a call makes is an object of the heap, which  *)
(* the call holds by reference.  The two library scorers are taken to be    *)
(* functions of the text they are given.                                    *)

\* The arguments of the parallel calls: a text with a strong pattern match,
\* one that is left to the sentiment scores, and a blank one.
ConcurrentInputs == {Str(Chars("hate")), Str(<<"U+1F631">>), Str(Chars("   "))}

\* The texts the library scorers are given.
ScoredTexts == {preprocess_text(v) : v \in {u \in ConcurrentInputs : ~IsBlank(u)}}

\* What a library scorer does for one text: it returns a value or raises.
Returns(value) == [raises |-> FALSE, value |-> value]
LexiconRaises == [raises |-> TRUE, value |-> 0]
PolarityRaises == [raises |-> TRUE, value |-> <<0, 0>>]

\* Two behaviours of the pair of libraries.
Libraries ==
    { [vader    |-> [s \in ScoredTexts |-> Returns(-700)],
       textblob |-> [s \in ScoredTexts |->
                        IF s = Chars("hate") THEN Returns(<<-500, 600>>)
                        ELSE Returns(<<300, 500>>)]],
      [vader    |-> [s \in ScoredTexts |->
                        IF s = Chars("hate") THEN Returns(700) ELSE LexiconRaises],
       textblob |-> [s \in ScoredTexts |->
                        IF s = Chars("hate") THEN PolarityRaises
                        ELSE Returns(<<-300, 300>>)]] }

\* analyze_with_vader (lines 85-97) for a library that is a function of the
\* text.
VaderScoresOf(lib, s) ==
    IF lib.vader[s].raises THEN DefaultVaderScores
    ELSE LET scores == polarity_scores(lib.vader[s].value)
         IN  [compound |-> scores.compound, positive |-> scores.pos,
              negative |-> scores.neg, neutral |-> scores.neu]

\* analyze_with_textblob (lines 99-109), likewise.
TextBlobScoresOf(lib, s) ==
    IF lib.textblob[s].raises THEN DefaultTextBlobScores
    ELSE [polarity |-> lib.textblob[s].value[1],
          subjectivity |-> lib.textblob[s].value[2]]

\* NewDict for a dict kept from call to call: every call gets the same
\* object.
NewDictShared(h) == 1

\* A dict display or comprehension makes a new object: one no call holds.
NewDict(h) ==
    CHOOSE id \in DOMAIN h :
        /\ h[id] = NotSet
        /\ \A other \in DOMAIN h : h[other] = NotSet => id <= other

\* What no parallel call touches.
outside_calls == <<analyzer_vars, emoji_vars, consumer_vars, connection_vars,
                   library>>

\* A caller calls analyze(v) in call c.
ParallelAnalyze(c, v) ==
    /\ calls[c].pc = "idle"
    /\ calls' = [calls EXCEPT ![c] = [IdleCall EXCEPT !.pc = "entered",
                                                       !.text = v]]
    /\ UNCHANGED <<config, heap, outside_calls>>

\* Lines 171-179: the default result, with a new dict of six zeros.
ParallelBlank(c) ==
    /\ calls[c].pc = "entered"
    /\ IsBlank(calls[c].text)
    /\ LET made == NewDict(heap)
       IN  /\ heap' = [heap EXCEPT ![made] = ZeroPatternScores]
           /\ calls' = [calls EXCEPT
                  ![c].emotion_scores = made,
                  ![c].result = [DefaultResult EXCEPT !.pattern_scores = made],
                  ![c].pc = "returned"]
    /\ UNCHANGED <<config, outside_calls>>

\* Line 182.
ParallelPreprocess(c) ==
    /\ calls[c].pc = "entered"
    /\ ~IsBlank(calls[c].text)
    /\ calls' = [calls EXCEPT
           ![c].processed_text = preprocess_text(calls[c].text),
           ![c].pc = "preprocessed"]
    /\ UNCHANGED <<config, heap, outside_calls>>

\* Line 185.
ParallelVader(c) ==
    /\ calls[c].pc = "preprocessed"
    /\ calls' = [calls EXCEPT
           ![c].vader_scores = VaderScoresOf(library, calls[c].processed_text),
           ![c].logged = IF library.vader[calls[c].processed_text].raises
                         THEN @ \cup {"VADER analysis error"} ELSE @,
           ![c].pc = "vader_done"]
    /\ UNCHANGED <<config, heap, outside_calls>>

\* Line 186.
ParallelTextBlob(c) ==
    /\ calls[c].pc = "vader_done"
    /\ calls' = [calls EXCEPT
           ![c].textblob_scores =
               TextBlobScoresOf(library, calls[c].processed_text),
           ![c].logged = IF library.textblob[calls[c].processed_text].raises
                         THEN @ \cup {"TextBlob analysis error"} ELSE @,
           ![c].pc = "textblob_done"]
    /\ UNCHANGED <<config, heap, outside_calls>>

\* Line 113: emotion_scores is a new dict with a zero for every key of
\* self.emotion_patterns.
ParallelNewScores(c) ==
    /\ calls[c].pc = "textblob_done"
    /\ LET made == NewDict(heap)
       IN  /\ heap' = [heap EXCEPT ![made] = ZeroPatternScores]
           /\ calls' = [calls EXCEPT ![c].emotion_scores = made,
                                     ![c].next_emotion = 1,
                                     ![c].pc = "scoring"]
    /\ UNCHANGED <<config, outside_calls>>

\* Lines 115-135, one turn of the outer loop: the contributions of the
\* groups of one category are added to the dict's entry for it.
ParallelAddScores(c) ==
    /\ calls[c].pc = "scoring"
    /\ calls[c].next_emotion <= Len(Emotions)
    /\ LET emotion == Emotions[calls[c].next_emotion]
       IN  heap' = [heap EXCEPT ![calls[c].emotion_scores][emotion] =
                       @ + PatternScoresOf[calls[c].processed_text][emotion]]
    /\ calls' = [calls EXCEPT ![c].next_emotion = @ + 1]
    /\ UNCHANGED <<config, outside_calls>>

\* Lines 137 and 190-199: the loop is over; the result holds the dict the
\* loop filled, not a copy of it.
ParallelClassify(c) ==
    /\ calls[c].pc = "scoring"
    /\ calls[c].next_emotion > Len(Emotions)
    /\ LET classified == classify_emotion(calls[c].vader_scores,
                                          calls[c].textblob_scores,
                                          heap[calls[c].emotion_scores])
       IN  calls' = [calls EXCEPT
               ![c].result =
                   [emotion |-> classified.emotion,
                    confidence |-> classified.confidence,
                    polarity |-> calls[c].textblob_scores.polarity,
                    subjectivity |-> calls[c].textblob_scores.subjectivity,
                    vader_scores |-> calls[c].vader_scores,
                    pattern_scores |-> calls[c].emotion_scores],
               ![c].pc = "returned"]
    /\ UNCHANGED <<config, heap, outside_calls>>

\* The caller drops the result; a dict no call holds any more is freed.
ParallelDone(c) ==
    /\ calls[c].pc = "returned"
    /\ calls' = [calls EXCEPT ![c] = IdleCall]
    /\ heap' = IF \E other \in DOMAIN calls \ {c} :
                      calls[other].emotion_scores = calls[c].emotion_scores
                THEN heap
                ELSE [heap EXCEPT ![calls[c].emotion_scores] = NotSet]
    /\ UNCHANGED <<config, outside_calls>>

InitConcurrent ==
    /\ AnalyzerInit
    /\ EmojiInit
    /\ ConsumerInit
    /\ CallsInit
    /\ ConnectionInit
    /\ library \in Libraries

NextConcurrent ==
    \/ \E c \in 1..NumCalls : \E v \in ConcurrentInputs : ParallelAnalyze(c, v)
    \/ \E c \in 1..NumCalls : ParallelBlank(c)
    \/ \E c \in 1..NumCalls : ParallelPreprocess(c)
    \/ \E c \in 1..NumCalls : ParallelVader(c)
    \/ \E c \in 1..NumCalls : ParallelTextBlob(c)
    \/ \E c \in 1..NumCalls : ParallelNewScores(c)
    \/ \E c \in 1..NumCalls : ParallelAddScores(c)
    \/ \E c \in 1..NumCalls : ParallelClassify(c)
    \/ \E c \in 1..NumCalls : ParallelDone(c)

SpecConcurrent == InitConcurrent /\ [][NextConcurrent]_vars

----------------------------------------------------------------------------
(* ChatConsumer.connect and disconnect (consumers.py): the consumers of     *)
(* NumConnections websocket connections, the rooms and memberships they     *)
(* read, the room groups of the channel layer, and what each consumer sends *)
(* to its client.  The framework calls connect first, then the handlers of  *)
(* one consumer one after the other, and disconnect once the connection is  *)
(* closed, also when connect itself closed it; an exception that leaves a   *)
(* handler ends the consumer.  The frames of this part are typing           *)
(* indicators; timestamps of events are left out.                           *)

\* scope['user']: two users with an account, and django's AnonymousUser.
Users ==
    { [type |-> "User", value |-> Chars("alice"), is_authenticated |-> TRUE],
      [type |-> "User", value |-> Chars("bob"), is_authenticated |-> TRUE],
      [type |-> "AnonymousUser", value |-> <<>>, is_authenticated |-> FALSE] }

Usernames == {u.value : u \in {v \in Users : v.is_authenticated}}

\* scope['url_route']['kwargs']['room_slug']: the slug of the one room there
\* is, and a slug no room has.
RoomSlugs == {Chars("lobby"), Chars("gone")}

\* A row of chat_rooms.
Room(slug, is_active) ==
    [type |-> "Room", value |-> slug, is_active |-> is_active]

\* Line 29: f'chat_{self.room_slug}'
GroupName(slug) == Chars("chat_") \o slug

GroupNames == {GroupName(slug) : slug \in RoomSlugs}

\* The consumers, by the channel_name of each.
ChannelNames == 1..NumConnections

\* Lines 18-24, with the local is_member of connect and what the consumer
\* did to its connection.
NewConsumer ==
    [pc |-> "constructed",
     room_slug |-> NoneValue,
     room_group_name |-> NoneValue,
     room |-> NoneValue,
     user |-> NoneValue,
     is_member |-> FALSE,
     accepted |-> FALSE,
     closed |-> FALSE,
     frames_received |-> 0]

\* A Message row as save_message creates it for the text "hate", scored
\* -0.7 by VADER and -0.5 by TextBlob.
StoredMessage ==
    LET s          == Chars("hate")
        scores     == polarity_scores(-700)
        vader      == [compound |-> scores.compound, positive |-> scores.pos,
                       negative |-> scores.neg, neutral |-> scores.neu]
        textblob   == [polarity |-> -500, subjectivity |-> 600]
        classified == classify_emotion(vader, textblob, PatternScoresOf[s])
    IN  [id |-> 1,
         content |-> s,
         emotion |-> classified.emotion,
         emotion_confidence |-> classified.confidence,
         sentiment_polarity |-> textblob.polarity,
         sentiment_subjectivity |-> textblob.subjectivity]

\* No connection has been made.  The room is active or not, each user with
\* an account is a member of it or not, and it has no message or one.
InitConnection ==
    /\ AnalyzerInit
    /\ EmojiInit
    /\ CallsInit
    /\ library = NotSet
    /\ consumer_pc = "waiting"
    /\ text_data = NotSet
    /\ message_content = NotSet
    /\ message = NotSet
    /\ raising = NotSet
    /\ consumer_logged = {}
    /\ db_messages \in {<<>>, <<StoredMessage>>}
    /\ db_emotion_logs = <<>>
    /\ room_updated_at = 0
    /\ last_read_at = FALSE
    /\ group_events = <<>>
    /\ frames_received = 0
    /\ \E is_active \in BOOLEAN : db_rooms = {Room(Chars("lobby"), is_active)}
    /\ db_memberships \in SUBSET {<<Chars("lobby"), name>> : name \in Usernames}
    /\ consumers = [c \in ChannelNames |-> NewConsumer]
    /\ groups = [g \in GroupNames |-> {}]
    /\ inboxes = [c \in ChannelNames |-> <<>>]
    /\ sockets = [c \in ChannelNames |-> <<>>]
    /\ group_sends = [c \in ChannelNames |-> <<>>]

\* What a consumer leaves alone.
outside_connections == <<analyzer_vars, emoji_vars, consumer_vars, calls_vars>>

\* A consumer that is over reads its channel no more: what is queued for it
\* is lost.
Over(c) == consumers[c].pc \in {"stopped", "crashed"}

Dropped(c) == [inboxes EXCEPT ![c] = <<>>]

\* channel_layer.group_send(group, event): the event is queued for every
\* channel of the group.
Delivered(group, event) ==
    [ch \in ChannelNames |->
        IF ch \in groups[group] /\ ~Over(ch)
        THEN Append(inboxes[ch], event) ELSE inboxes[ch]]

Sent(c, group, event) ==
    [group_sends EXCEPT ![c] = Append(@, [group |-> group, event |-> event])]

\* Lines 231-236: Room.objects.get(slug=room_slug, is_active=True), None
\* when there is no such row.
get_room(room_slug) ==
    LET rows == {r \in db_rooms : r.value = room_slug /\ r.is_active}
    IN  IF rows = {} THEN NoneValue ELSE CHOOSE r \in rows : TRUE

\* Lines 239-241.
check_room_membership(room, user) == <<room.value, user.value>> \in db_memberships

\* Lines 26-35: the framework calls connect for a connection to the route of
\* room_slug made by user; a user who is not authenticated is turned away.
\* The channels are numbered in the order of their connections.
Connect(c, room_slug, user) ==
    /\ consumers[c].pc = "constructed"
    /\ \A earlier \in 1..(c - 1) : consumers[earlier].pc # "constructed"
    /\ consumers' = [consumers EXCEPT ![c] =
          [@ EXCEPT !.room_slug = Str(room_slug),
                    !.room_group_name = Str(GroupName(room_slug)),
                    !.user = user,
                    !.closed = ~user.is_authenticated,
                    !.pc = IF user.is_authenticated THEN "get_room"
                           ELSE "rejected"]]
    /\ UNCHANGED <<db_rooms, db_memberships, groups, inboxes, sockets,
                   group_sends>>
    /\ UNCHANGED outside_connections

\* Lines 38-41.
ConnectGetRoom(c) ==
    /\ consumers[c].pc = "get_room"
    /\ LET room == get_room(consumers[c].room_slug.value)
       IN  consumers' = [consumers EXCEPT ![c] =
              [@ EXCEPT !.room = room,
                        !.closed = ~Truthy(room),
                        !.pc = IF Truthy(room) THEN "check_room_membership"
                               ELSE "rejected"]]
    /\ UNCHANGED <<db_rooms, db_memberships, groups, inboxes, sockets,
                   group_sends>>
    /\ UNCHANGED outside_connections

\* ConnectCheckMembership without lines 45-47.
ConnectCheckMembershipIgnored(c) ==
    /\ consumers[c].pc = "check_room_membership"
    /\ consumers' = [consumers EXCEPT ![c] =
          [@ EXCEPT !.is_member =
                        check_room_membership(consumers[c].room, consumers[c].user),
                    !.pc = "group_add"]]
    /\ UNCHANGED <<db_rooms, db_memberships, groups, inboxes, sockets,
                   group_sends>>
    /\ UNCHANGED outside_connections

\* Lines 44-47.
ConnectCheckMembership(c) ==
    /\ consumers[c].pc = "check_room_membership"
    /\ LET is_member ==
               check_room_membership(consumers[c].room, consumers[c].user)
       IN  consumers' = [consumers EXCEPT ![c] =
              [@ EXCEPT !.is_member = is_member,
                        !.closed = ~is_member,
                        !.pc = IF is_member THEN "group_add" ELSE "rejected"]]
    /\ UNCHANGED <<db_rooms, db_memberships, groups, inboxes, sockets,
                   group_sends>>
    /\ UNCHANGED outside_connections

\* Lines 50-53.
ConnectGroupAdd(c) ==
    /\ consumers[c].pc = "group_add"
    /\ groups' = [groups EXCEPT ![consumers[c].room_group_name.value] = @ \cup {c}]
    /\ consumers' = [consumers EXCEPT ![c].pc = "accept"]
    /\ UNCHANGED <<db_rooms, db_memberships, inboxes, sockets, group_sends>>
    /\ UNCHANGED outside_connections

\* Lines 278-284: the messages of the room, the latest first.
get_recent_messages == [i \in 1..Len(db_messages) |->
                           db_messages[Len(db_messages) + 1 - i]]

\* Lines 55-59 and 209-227: accept, then send_recent_messages.
ConnectAccept(c) ==
    /\ consumers[c].pc = "accept"
    /\ sockets' = [sockets EXCEPT ![c] = @ \o
          [i \in 1..Len(get_recent_messages) |->
              [type |-> "message",
               message |-> ChatMessageEvent(get_recent_messages[i]).message]]]
    /\ consumers' = [consumers EXCEPT ![c] =
          [@ EXCEPT !.accepted = TRUE, !.pc = "group_send"]]
    /\ UNCHANGED <<db_rooms, db_memberships, groups, inboxes, group_sends>>
    /\ UNCHANGED outside_connections

\* Lines 62-71.
ConnectAnnounce(c) ==
    /\ consumers[c].pc = "group_send"
    /\ LET group == consumers[c].room_group_name.value
           event == [type |-> "user_joined", user |-> consumers[c].user.value]
       IN  /\ inboxes' = Delivered(group, event)
           /\ group_sends' = Sent(c, group, event)
    /\ consumers' = [consumers EXCEPT ![c].pc = "open"]
    /\ UNCHANGED <<db_rooms, db_memberships, groups, sockets>>
    /\ UNCHANGED outside_connections

\* The database, the channel layer or the socket raises under connect: the
\* exception leaves connect and the consumer is over.
ConnectRaises(c) ==
    /\ consumers[c].pc \in {"get_room", "check_room_membership", "group_add",
                            "accept", "group_send"}
    /\ consumers' = [consumers EXCEPT ![c].pc = "crashed"]
    /\ inboxes' = Dropped(c)
    /\ UNCHANGED <<db_rooms, db_memberships, groups, sockets, group_sends>>
    /\ UNCHANGED outside_connections

\* The frames the first n consumers have received.
RECURSIVE FramesReceived(_)
FramesReceived(n) ==
    IF n = 0 THEN 0 ELSE consumers[n].frames_received + FramesReceived(n - 1)

\* Lines 95-104 and 158-169: receive is called with a typing frame on an
\* accepted connection; the event is sent to the group, or the channel layer
\* raises and receive logs it (lines 112-113).
ReceiveTyping(c) ==
    /\ consumers[c].pc = "open"
    /\ FramesReceived(NumConnections) < MaxFrames
    /\ consumers' = [consumers EXCEPT ![c].frames_received = @ + 1]
    /\ \/ LET group == consumers[c].room_group_name.value
              event == [type |-> "typing_indicator",
                        user |-> consumers[c].user.value,
                        is_typing |-> TRUE]
          IN  /\ inboxes' = Delivered(group, event)
              /\ group_sends' = Sent(c, group, event)
       \/ UNCHANGED <<inboxes, group_sends>>
    /\ UNCHANGED <<db_rooms, db_memberships, groups, sockets>>
    /\ UNCHANGED outside_connections

\* The frame a handler of lines 176-207 sends for an event, or none.
FrameFor(c, event) ==
    CASE event.type = "chat_message" ->
             <<[type |-> "message", message |-> event.message]>>
      [] event.type = "user_joined" ->
             <<[type |-> "user_joined", user |-> event.user]>>
      [] event.type = "user_left" ->
             <<[type |-> "user_left", user |-> event.user]>>
      [] event.type = "typing_indicator" ->
             IF event.user # consumers[c].user.value
             THEN <<[type |-> "typing", user |-> event.user,
                     is_typing |-> event.is_typing]>>
             ELSE <<>>

\* Lines 176-207: the framework calls the handler of the next event queued
\* for the consumer; self.send raises on a connection that is not open.
HandleEvent(c) ==
    /\ consumers[c].pc \in {"open", "rejected"}
    /\ inboxes[c] # <<>>
    /\ LET frame == FrameFor(c, Head(inboxes[c]))
       IN  IF frame = <<>>
           THEN /\ inboxes' = [inboxes EXCEPT ![c] = Tail(@)]
                /\ UNCHANGED <<consumers, sockets>>
           ELSE IF consumers[c].accepted /\ ~consumers[c].closed
           THEN /\ inboxes' = [inboxes EXCEPT ![c] = Tail(@)]
                /\ sockets' = [sockets EXCEPT ![c] = @ \o frame]
                /\ UNCHANGED consumers
           ELSE /\ inboxes' = Dropped(c)
                /\ consumers' = [consumers EXCEPT ![c].pc = "crashed"]
                /\ UNCHANGED sockets
    /\ UNCHANGED <<db_rooms, db_memberships, groups, group_sends>>
    /\ UNCHANGED outside_connections

\* Lines 73-85: the connection is closed and the framework calls disconnect;
\* group_send may raise.
DisconnectAnnounce(c) ==
    /\ consumers[c].pc \in {"open", "rejected"}
    /\ IF ~Truthy(consumers[c].room_group_name)
       THEN /\ consumers' = [consumers EXCEPT ![c].pc = "stopped"]
            /\ inboxes' = Dropped(c)
            /\ UNCHANGED group_sends
       ELSE IF ~(Truthy(consumers[c].user) /\ consumers[c].user.is_authenticated)
       THEN /\ consumers' = [consumers EXCEPT ![c].pc = "group_discard"]
            /\ UNCHANGED <<inboxes, group_sends>>
       ELSE \/ LET group == consumers[c].room_group_name.value
                   event == [type |-> "user_left",
                             user |-> consumers[c].user.value]
               IN  /\ inboxes' = Delivered(group, event)
                   /\ group_sends' = Sent(c, group, event)
                   /\ consumers' = [consumers EXCEPT ![c].pc = "group_discard"]
            \/ /\ consumers' = [consumers EXCEPT ![c].pc = "crashed"]
               /\ inboxes' = Dropped(c)
               /\ UNCHANGED group_sends
    /\ UNCHANGED <<db_rooms, db_memberships, groups, sockets>>
    /\ UNCHANGED outside_connections

\* Lines 87-93; group_discard may raise.
DisconnectDiscard(c) ==
    /\ consumers[c].pc = "group_discard"
    /\ \/ /\ groups' = [groups EXCEPT
                           ![consumers[c].room_group_name.value] = @ \ {c}]
          /\ consumers' = [consumers EXCEPT ![c].pc = "stopped"]
       \/ /\ consumers' = [consumers EXCEPT ![c].pc = "crashed"]
          /\ UNCHANGED groups
    /\ inboxes' = Dropped(c)
    /\ UNCHANGED <<db_rooms, db_memberships, sockets, group_sends>>
    /\ UNCHANGED outside_connections

\* Room.remove_member (models.py, lines 73-80).
RemoveMember(name) ==
    /\ <<Chars("lobby"), name>> \in db_memberships
    /\ db_memberships' = db_memberships \ {<<Chars("lobby"), name>>}
    /\ UNCHANGED <<db_rooms, consumers, groups, inboxes, sockets, group_sends>>
    /\ UNCHANGED outside_connections

NextConnection ==
    \/ \E c \in ChannelNames : \E room_slug \in RoomSlugs : \E user \in Users :
          Connect(c, room_slug, user)
    \/ \E c \in ChannelNames : ConnectGetRoom(c)
    \/ \E c \in ChannelNames : ConnectCheckMembership(c)
    \/ \E c \in ChannelNames : ConnectGroupAdd(c)
    \/ \E c \in ChannelNames : ConnectAccept(c)
    \/ \E c \in ChannelNames : ConnectAnnounce(c)
    \/ \E c \in ChannelNames : ConnectRaises(c)
    \/ \E c \in ChannelNames : ReceiveTyping(c)
    \/ \E c \in ChannelNames : HandleEvent(c)
    \/ \E c \in ChannelNames : DisconnectAnnounce(c)
    \/ \E c \in ChannelNames : DisconnectDiscard(c)
    \/ \E name \in Usernames : RemoveMember(name)

SpecConnection == InitConnection /\ [][NextConnection]_vars

----------------------------------------------------------------------------
(* What the properties below read off a state *)

\* analyze ran the whole pipeline and returned.
ReturnedClassified == pc = "returned" /\ "classify_emotion" \in invoked

\* The greatest of the six pattern scores.
MaxScore(scores) ==
    CHOOSE m \in {scores[e] : e \in EmotionSet} : \A e \in EmotionSet : scores[e] <= m

\* The categories that hold the greatest score.
Leaders(scores) == {e \in EmotionSet : scores[e] = MaxScore(scores)}

\* The place of a category in the fixed order.
Rank(e) == CHOOSE i \in 1..Len(Emotions) : Emotions[i] = e

\* The argument of analyze is not a string, or has no character other than
\* whitespace.
BlankInput(v) ==
    v.type # "str" \/ \A i \in 1..Len(v.value) : v.value[i] \in Whitespace

----------------------------------------------------------------------------
(* C1 *)

\* C1: whenever the greatest pattern score is above 0.5, the emotion returned
\* is a category holding that greatest score and the confidence is
\* min(greatest score, 1.0), whatever the compound and polarity scores are.
C1_PatternPrecedence ==
    (ReturnedClassified /\ MaxScore(pattern_scores) > 500)
        => /\ result.emotion \in Leaders(pattern_scores)
           /\ result.confidence = Min(MaxScore(pattern_scores), 1000)

\* A strong angry pattern match returned against the most positive sentiment.
C1_Witness ==
    /\ ReturnedClassified
    /\ MaxScore(pattern_scores) > 500
    /\ result.emotion = "angry"
    /\ vader_scores.compound = 1000
    /\ textblob_scores.polarity = 1000

----------------------------------------------------------------------------
(* C2 *)

\* C2: on every path analyze returns a confidence in [0, 1], a polarity in
\* [-1, 1] and a subjectivity in [0, 1]; a pattern score above 1.0 does not
\* give a confidence above 1.0.
C2_ResultRanges ==
    pc = "returned"
        => /\ result.confidence >= 0 /\ result.confidence <= 1000
           /\ result.polarity >= -1000 /\ result.polarity <= 1000
           /\ result.subjectivity >= 0 /\ result.subjectivity <= 1000

\* A result whose greatest pattern score is above 1.0.
C2_Witness ==
    /\ ReturnedClassified
    /\ MaxScore(pattern_scores) > 1000
    /\ result.confidence = 1000

----------------------------------------------------------------------------
(* C3 *)

\* C3: for an argument that is empty, not a string or all whitespace, analyze
\* returns the neutral default (confidence exactly 0.5, zero polarity and
\* subjectivity, the lexicon default, six zero pattern scores) and invokes
\* neither the normalizer, nor a scorer, nor the classifier.
C3_BlankShortCircuit ==
    (pc # "idle" /\ BlankInput(text))
        => /\ pc \in {"entered", "returned"}
           /\ invoked = {}
           /\ logged = {}
           /\ pc = "returned" =>
                /\ result.emotion = "neutral"
                /\ result.confidence = 500
                /\ result.polarity = 0
                /\ result.subjectivity = 0
                /\ result.vader_scores =
                       [compound |-> 0, positive |-> 0, negative |-> 0,
                        neutral |-> 1000]
                /\ DOMAIN result.pattern_scores = EmotionSet
                /\ \A e \in EmotionSet : result.pattern_scores[e] = 0

\* analyze has returned for a string of three spaces.
C3_Witness ==
    /\ pc = "returned"
    /\ text = Str(Chars("   "))
    /\ result.confidence = 500

----------------------------------------------------------------------------
(* What C4, C5 and C6 read off a normalized text *)

\* The matches of all the pattern groups of one category.
RECURSIVE TotalMatches(_, _, _)
TotalMatches(patterns, s, i) ==
    IF i > Len(patterns) THEN 0
    ELSE FindAllCount(patterns[i], s) + TotalMatches(patterns, s, i + 1)

\* Per normalized text of the model: the matches of each category, and whether
\* an intensifier and a diminisher occur in it.  Computed once.
TextFactsOf ==
    [s \in NormalizedTexts |->
        [matches     |-> [e \in EmotionSet |-> TotalMatches(emotion_patterns[e], s, 1)],
         intensifier |-> \E i \in 1..Len(intensifiers) : Contains(s, intensifiers[i]),
         diminisher  |-> \E i \in 1..Len(diminishers) : Contains(s, diminishers[i])]]

\* The non-blank string inputs, as character sequences.
NonBlankTexts == {v.value : v \in {u \in StrInputs : ~BlankInput(u)}}

\* The intensifiers C5 prepends.
PrependedIntensifiers == {Chars("extremely"), Chars("so")}

\* analyze's pattern scores for word + " " + text.  Computed once.
ScoresWithWordOf(words) ==
    [w \in words |->
        [t \in NonBlankTexts |->
            analyze_emotion_patterns(preprocess_text(Str(w \o <<" ">> \o t)))]]

ScoresIntensifiedOf == ScoresWithWordOf(PrependedIntensifiers)
ScoresDiminishedOf == ScoresWithWordOf({Chars("slightly")})

\* The pattern scorer has just run.
PatternsScored == pc = "patterns_done"

----------------------------------------------------------------------------
(* C4 *)

\* C4 as stated: the per-group factor is 1.5 when an intensifier occurs in
\* the text (a diminisher then does not count), 0.7 when only a diminisher
\* occurs, and 1 otherwise; each category's score is 0.3 * factor * matches.
C4_FactorsExclusive ==
    PatternsScored =>
        LET facts == TextFactsOf[processed_text]
            factor20 == IF facts.intensifier THEN 30
                        ELSE IF facts.diminisher THEN 14 ELSE 20
        IN  \A e \in EmotionSet :
                20 * pattern_scores[e] = 300 * factor20 * facts.matches[e]

\* C4 as amended: the two adjustments are independent.  The factor is 1.5 when
\* only an intensifier occurs, 0.7 when only a diminisher occurs, 1.5 * 0.7
\* when both occur and 1 when neither does.
C4_FactorsIndependent ==
    PatternsScored =>
        LET facts == TextFactsOf[processed_text]
            up2    == IF facts.intensifier THEN 3 ELSE 2
            down10 == IF facts.diminisher THEN 7 ELSE 10
        IN  \A e \in EmotionSet :
                20 * pattern_scores[e] = 300 * up2 * down10 * facts.matches[e]

\* A text with an intensifier, a diminisher and a match has been scored.
C4_Witness ==
    /\ PatternsScored
    /\ TextFactsOf[processed_text].intensifier
    /\ TextFactsOf[processed_text].diminisher
    /\ \E e \in EmotionSet :
          /\ TextFactsOf[processed_text].matches[e] = 1
          /\ pattern_scores[e] = 315

----------------------------------------------------------------------------
(* C5 *)

\* C5 as stated: for a text with a match in a category, prepending an
\* intensifier gives that category a strictly greater pattern score.
C5_IntensifierStrictlyGreater ==
    PatternsScored =>
        \A w \in PrependedIntensifiers : \A e \in EmotionSet :
            pattern_scores[e] > 0
                => ScoresIntensifiedOf[w][text.value][e] > pattern_scores[e]

\* C5 as amended: for a text with a match in a category, prepending an
\* intensifier multiplies that category's score by 1.5 when no intensifier
\* occurs in the normalized text, and leaves it unchanged when one already
\* does; it is never smaller.
C5_IntensifierScaling ==
    PatternsScored =>
        \A w \in PrependedIntensifiers : \A e \in EmotionSet :
            pattern_scores[e] > 0
                => LET after == ScoresIntensifiedOf[w][text.value][e]
                   IN  /\ after >= pattern_scores[e]
                       /\ IF TextFactsOf[processed_text].intensifier
                          THEN after = pattern_scores[e]
                          ELSE 2 * after = 3 * pattern_scores[e]

\* A matching text without an intensifier has been scored.
C5_Witness ==
    /\ PatternsScored
    /\ ~TextFactsOf[processed_text].intensifier
    /\ pattern_scores["happy"] = 300
    /\ ScoresIntensifiedOf[Chars("extremely")][text.value]["happy"] = 450

----------------------------------------------------------------------------
(* C6 *)

\* C6 as stated: for a text with a match in a category and no intensifier,
\* prepending "slightly" gives that category a strictly smaller score, >= 0.
C6_DiminisherStrictlySmaller ==
    PatternsScored =>
        \A e \in EmotionSet :
            (pattern_scores[e] > 0 /\ ~TextFactsOf[processed_text].intensifier)
                => LET after == ScoresDiminishedOf[Chars("slightly")][text.value][e]
                   IN  after >= 0 /\ after < pattern_scores[e]

\* C6 as amended: for a text with a match in a category, prepending "slightly"
\* multiplies that category's score by 0.7 when no diminisher occurs in the
\* normalized text (with or without an intensifier), and leaves it unchanged
\* when one already does; it is never greater and never below 0.
C6_DiminisherScaling ==
    PatternsScored =>
        \A e \in EmotionSet :
            pattern_scores[e] > 0
                => LET after == ScoresDiminishedOf[Chars("slightly")][text.value][e]
                   IN  /\ after >= 0 /\ after <= pattern_scores[e]
                       /\ IF TextFactsOf[processed_text].diminisher
                          THEN after = pattern_scores[e]
                          ELSE 10 * after = 7 * pattern_scores[e]

\* A matching text without a diminisher and without an intensifier has been
\* scored.
C6_Witness ==
    /\ PatternsScored
    /\ ~TextFactsOf[processed_text].diminisher
    /\ ~TextFactsOf[processed_text].intensifier
    /\ pattern_scores["angry"] = 600
    /\ ScoresDiminishedOf[Chars("slightly")][text.value]["angry"] = 420

----------------------------------------------------------------------------
(* C7 *)

\* The leader that comes first in the order happy, sad, angry, surprised,
\* fearful, disgusted.
EarliestLeader(scores) ==
    CHOOSE e \in Leaders(scores) : \A f \in Leaders(scores) : Rank(e) <= Rank(f)

\* C7: when several categories share the greatest pattern score, the
\* classifier selects the one that comes first in the fixed order, and with a
\* shared greatest score above 0.5 that category is the emotion returned.
C7_TieBreakEarliest ==
    /\ (PatternsScored \/ ReturnedClassified)
          => max_pattern_emotion(pattern_scores) = EarliestLeader(pattern_scores)
    /\ (ReturnedClassified /\ MaxScore(pattern_scores) > 500)
          => result.emotion = EarliestLeader(pattern_scores)

\* angry and fearful share the greatest score 0.6 and angry is returned.
C7_Witness ==
    /\ ReturnedClassified
    /\ Leaders(pattern_scores) = {"angry", "fearful"}
    /\ MaxScore(pattern_scores) = 600
    /\ result.emotion = "angry"

----------------------------------------------------------------------------
(* C8, C9, C10: the sentiment branches *)

\* No pattern score is above 0.5.
NoStrongPattern == \A e \in EmotionSet : pattern_scores[e] <= 500

PositiveSignal == vader_scores.compound >= 500 \/ textblob_scores.polarity >= 300
NegativeSignal == vader_scores.compound <= -500 \/ textblob_scores.polarity <= -300

\* |compound| when compound is not zero, |polarity| when it is.
ExpectedSentimentConfidence ==
    IF vader_scores.compound # 0
    THEN Abs(vader_scores.compound) ELSE Abs(textblob_scores.polarity)

\* C8: with no pattern score above 0.5 and compound >= 0.5 or polarity >= 0.3,
\* the emotion is happy when compound >= 0.7 or polarity >= 0.5 and positive
\* otherwise, and the confidence is |compound|, or |polarity| when compound
\* is zero, within [0, 1].
C8_PositiveFallback ==
    (ReturnedClassified /\ NoStrongPattern /\ PositiveSignal)
        => /\ result.emotion =
                 IF vader_scores.compound >= 700 \/ textblob_scores.polarity >= 500
                 THEN "happy" ELSE "positive"
           /\ result.confidence = Max(0, Min(1000, ExpectedSentimentConfidence))

\* positive is returned on the polarity alone, with the polarity as confidence.
C8_Witness ==
    /\ ReturnedClassified
    /\ NoStrongPattern
    /\ vader_scores.compound = 0
    /\ textblob_scores.polarity = 300
    /\ result.emotion = "positive"
    /\ result.confidence = 300

\* C9: with no pattern score above 0.5, the positive condition false and
\* compound <= -0.5 or polarity <= -0.3, the emotion is angry when
\* compound <= -0.7 or polarity <= -0.5 and sad otherwise, and the confidence
\* is |compound|, or |polarity| when compound is zero.
C9_NegativeFallback ==
    (ReturnedClassified /\ NoStrongPattern /\ ~PositiveSignal /\ NegativeSignal)
        => /\ result.emotion =
                 IF vader_scores.compound <= -700 \/ textblob_scores.polarity <= -500
                 THEN "angry" ELSE "sad"
           /\ result.confidence = ExpectedSentimentConfidence

\* sad is returned on the polarity alone, with |polarity| as confidence.
C9_Witness ==
    /\ ReturnedClassified
    /\ NoStrongPattern
    /\ vader_scores.compound = 0
    /\ textblob_scores.polarity = -300
    /\ result.emotion = "sad"
    /\ result.confidence = 300

\* C10: with no pattern score above 0.5 and neither condition true, the
\* emotion is neutral and the confidence is 1 - |compound|.
C10_NeutralFallback ==
    (ReturnedClassified /\ NoStrongPattern /\ ~PositiveSignal /\ ~NegativeSignal)
        => /\ result.emotion = "neutral"
           /\ result.confidence = 1000 - Abs(vader_scores.compound)

\* neutral is returned for a negative compound score, with confidence 0.7.
C10_Witness ==
    /\ ReturnedClassified
    /\ NoStrongPattern
    /\ vader_scores.compound = -300
    /\ result.emotion = "neutral"
    /\ result.confidence = 700

----------------------------------------------------------------------------
(* C11 *)

\* The five methods analyze calls on a non-blank text.
PipelineMethods ==
    {"preprocess_text", "analyze_with_vader", "analyze_with_textblob",
     "analyze_emotion_patterns", "classify_emotion"}

\* The keys of the result of analyze.
ResultKeys ==
    {"emotion", "confidence", "polarity", "subjectivity", "vader_scores",
     "pattern_scores"}

\* C11: when the lexicon scorer throws, its result is {compound 0, positive 0,
\* negative 0, neutral 1}; when the polarity scorer throws, its result is
\* {polarity 0, subjectivity 0}; after either failure the call is still inside
\* the pipeline or has returned, and a call that returned after a failure ran
\* all five methods and returned a result with all six keys, built from the
\* substituted scores.  No call ends with an error.
C11_ScorerFailureRecovered ==
    /\ pc \in {"idle", "entered", "preprocessed", "vader_done", "textblob_done",
               "patterns_done", "returned"}
    /\ "VADER analysis error" \in logged
         => /\ pc \in {"vader_done", "textblob_done", "patterns_done", "returned"}
            /\ vader_scores =
                   [compound |-> 0, positive |-> 0, negative |-> 0, neutral |-> 1000]
    /\ "TextBlob analysis error" \in logged
         => /\ pc \in {"textblob_done", "patterns_done", "returned"}
            /\ textblob_scores = [polarity |-> 0, subjectivity |-> 0]
    /\ (pc = "returned" /\ logged # {})
         => /\ invoked = PipelineMethods
            /\ DOMAIN result = ResultKeys
            /\ result.vader_scores = vader_scores
            /\ result.polarity = textblob_scores.polarity
            /\ result.subjectivity = textblob_scores.subjectivity
            /\ result.pattern_scores = PatternScoresOf[processed_text]
            /\ result.emotion \in EmotionSet \cup {"positive", "neutral"}
    /\ (pc \notin {"idle", "returned"} /\ logged # {}) => ENABLED Next

\* Both scorers threw and analyze returned the category of a strong pattern.
C11_Witness ==
    /\ pc = "returned"
    /\ logged = {"VADER analysis error", "TextBlob analysis error"}
    /\ result.emotion = "angry"
    /\ result.vader_scores.neutral = 1000

----------------------------------------------------------------------------
(* C15 *)

\* The first message of the module's example run (line 222).
HappyMessage == Chars("I'm so happy today! This is amazing!")

\* C15: analyze("I'm so happy today! This is amazing!") returns 'happy' with a
\* happy pattern score above 0.5 and a confidence of at most 1.0, whatever the
\* two library scorers return: the happy category has two matches, an
\* intensifier occurs in the text and no diminisher does, so the score is
\* 2 * 0.3 * 1.5 = 0.9.
C15_HappyScenario ==
    (pc = "returned" /\ text = Str(HappyMessage))
        => /\ result.emotion = "happy"
           /\ result.pattern_scores["happy"] > 500
           /\ result.confidence <= 1000
           /\ TextFactsOf[processed_text].matches["happy"] = 2
           /\ TextFactsOf[processed_text].intensifier
           /\ ~TextFactsOf[processed_text].diminisher
           /\ result.pattern_scores["happy"] = 900
           /\ result.confidence = 900

\* The message classified against the most negative lexicon and polarity
\* scores.
C15_Witness ==
    /\ pc = "returned"
    /\ text = Str(HappyMessage)
    /\ vader_scores.compound = -1000
    /\ textblob_scores.polarity = -1000
    /\ result.emotion = "happy"

----------------------------------------------------------------------------
(* C17 *)

\* C17: the pattern scorer returns a score for each of the six categories,
\* and for a text that holds no diminisher each score is 0.3 * f * (the matches
\* of all the category's groups together), f = 1.5 when an intensifier occurs
\* in the text and 1 otherwise; a category without a match scores 0.
C17_PatternAccumulation ==
    PatternsScored
        => /\ DOMAIN pattern_scores = EmotionSet
           /\ ~TextFactsOf[processed_text].diminisher
                => \A e \in EmotionSet :
                      2 * pattern_scores[e] =
                          300 * TextFactsOf[processed_text].matches[e]
                              * (IF TextFactsOf[processed_text].intensifier
                                 THEN 3 ELSE 2)

\* A text without diminisher that scores in two categories, in one of them
\* with the matches of several groups.
C17_Witness ==
    /\ PatternsScored
    /\ ~TextFactsOf[processed_text].diminisher
    /\ Cardinality({e \in EmotionSet : pattern_scores[e] > 0}) >= 2
    /\ \E e \in EmotionSet : TextFactsOf[processed_text].matches[e] >= 3

----------------------------------------------------------------------------
(* C18 *)

\* Some character occurs n or more times in a row in s.
HasRun(s, n, chars) ==
    \E i \in 1..(Len(s) - n + 1) :
        /\ s[i] \in chars
        /\ \A k \in 1..(n - 1) : s[i + k] = s[i]

----------------------------------------------------------------------------
(* C19 *)

\* C19: analyze never returns 'negative'; it returns 'surprised', 'fearful'
\* or 'disgusted' only from the pattern branch (greatest pattern score above
\* 0.5); without a pattern score above 0.5 it returns one of happy, positive,
\* angry, sad, neutral.
C19_LabelsByBranch ==
    pc = "returned"
        => /\ result.emotion # "negative"
           /\ result.emotion \in {"surprised", "fearful", "disgusted"}
                => /\ ReturnedClassified
                   /\ MaxScore(pattern_scores) > 500
           /\ (ReturnedClassified /\ MaxScore(pattern_scores) <= 500)
                => result.emotion \in {"happy", "positive", "angry", "sad",
                                       "neutral"}

\* 'fearful' returned from the pattern branch, and the compound and polarity
\* scores are those of the weaker negative case.
C19_Witness ==
    /\ ReturnedClassified
    /\ result.emotion = "fearful"
    /\ MaxScore(pattern_scores) > 500
    /\ vader_scores.compound = -500
    /\ textblob_scores.polarity = -300

----------------------------------------------------------------------------
(* C20 *)

\* C20: when no pattern score is above 0.5 and the compound and polarity
\* scores meet the positive condition and the negative condition at once, the
\* emotion returned is 'happy' or 'positive'.
C20_ConflictResolvesPositive ==
    (ReturnedClassified /\ NoStrongPattern /\ PositiveSignal /\ NegativeSignal)
        => result.emotion \in {"happy", "positive"}

\* A strongly negative compound score against a mildly positive polarity.
C20_Witness ==
    /\ ReturnedClassified
    /\ NoStrongPattern
    /\ vader_scores.compound = -700
    /\ textblob_scores.polarity = 300
    /\ result.emotion = "positive"

----------------------------------------------------------------------------
(* C16 *)

\* The glyph the claim gives each of the nine labels.
LabelGlyphs ==
    { <<"happy", "U+1F60A">>, <<"sad", "U+1F622">>, <<"angry", "U+1F620">>,
      <<"surprised", "U+1F632">>, <<"fearful", "U+1F628">>,
      <<"disgusted", "U+1F922">>, <<"neutral", "U+1F610">>,
      <<"positive", "U+1F642">>, <<"negative", "U+1F61E">> }

----------------------------------------------------------------------------
(* What C13 and C14 read off a state of the consumer *)

\* The chat_message events sent to the room group so far.
ChatEvents ==
    {group_events[i].message :
        i \in {j \in 1..Len(group_events) : group_events[j].type = "chat_message"}}

\* The last row of a table.
Last(rows) == rows[Len(rows)]

\* receive has returned for a frame whose message text it gave to analyze,
\* and neither the database nor the channel layer raised.
HandledWithoutOutsideFailure ==
    /\ consumer_pc = "returned"
    /\ pc = "returned"
    /\ consumer_logged = {}

----------------------------------------------------------------------------
(* C13 *)

\* C13 (under SpecConsumer): no exception leaves analyze, and receive never
\* logs one that came from analyze; for a non-empty chat message, whatever
\* the two library scorers did (returned or threw), when the database and the
\* channel layer did not raise the message is a row of chat_messages with an
\* emotion log and has been sent to the room group, carrying the emotion and
\* confidence analyze returned; when both scorers threw and no pattern score
\* is above 0.5 that emotion is 'neutral'.
C13_EngineFailureKeepsMessage ==
    /\ pc # "raised"
    /\ \A l \in consumer_logged :
          l.msg = "Error processing message"
              => l.e \in {"strip", "save_message", "save_emotion_log",
                          "group_send", "update_last_read_timestamp"}
    /\ HandledWithoutOutsideFailure
          => /\ Len(db_messages) > 0
             /\ Last(db_messages).content = message_content
             /\ Last(db_messages).emotion = result.emotion
             /\ Len(db_emotion_logs) > 0
             /\ Last(db_emotion_logs).message = Last(db_messages).id
             /\ Len(group_events) > 0
             /\ Last(group_events).type = "chat_message"
             /\ Last(group_events).message.id = Last(db_messages).id
             /\ Last(group_events).message.content = message_content
             /\ Last(group_events).message.emotion = result.emotion
             /\ Last(group_events).message.emotion_confidence = result.confidence
    /\ (pc = "returned"
          /\ logged = {"VADER analysis error", "TextBlob analysis error"}
          /\ MaxScore(pattern_scores) <= 500)
          => result.emotion = "neutral"

\* Both scorers threw on "ok"; the message was saved and sent as neutral.
C13_Witness ==
    /\ HandledWithoutOutsideFailure
    /\ logged = {"VADER analysis error", "TextBlob analysis error"}
    /\ message_content = Chars("ok")
    /\ Len(db_messages) = 1
    /\ Len(group_events) = 1
    /\ Last(group_events).message.emotion = "neutral"

----------------------------------------------------------------------------
(* C14 *)

\* C14 (under SpecConsumer): every chat message sent to the room group is a
\* row of chat_messages with the same content, emotion and confidence, and has
\* an emotion log; the Message is created after analyze has returned for its
\* content, from the emotion, confidence, polarity and subjectivity analyze
\* returned; the emotion log is created after the Message, from the pattern
\* scores analyze returned; and the event sent last carries the emotion and
\* confidence analyze returned.
C14_AnalyzeSaveLogBroadcast ==
    /\ \A ev \in ChatEvents :
          /\ \E j \in 1..Len(db_messages) :
                /\ db_messages[j].id = ev.id
                /\ db_messages[j].content = ev.content
                /\ db_messages[j].emotion = ev.emotion
                /\ db_messages[j].emotion_confidence = ev.emotion_confidence
          /\ \E k \in 1..Len(db_emotion_logs) : db_emotion_logs[k].message = ev.id
    /\ consumer_pc = "analyzing"
          => /\ message = NotSet
             /\ \A j \in 1..Len(db_messages) : db_messages[j].id <= frames_received - 1
    /\ consumer_pc \in {"message_saved", "log_saved"}
          => /\ pc = "returned"
             /\ text = Str(message.content)
             /\ message = Last(db_messages)
             /\ message.emotion = result.emotion
             /\ message.emotion_confidence = result.confidence
             /\ message.sentiment_polarity = result.polarity
             /\ message.sentiment_subjectivity = result.subjectivity
             /\ message.id \notin {ev.id : ev \in ChatEvents}
    /\ consumer_pc = "message_saved"
          => \A k \in 1..Len(db_emotion_logs) :
                 db_emotion_logs[k].message # message.id
    /\ consumer_pc = "log_saved"
          => /\ Last(db_emotion_logs).message = message.id
             /\ Last(db_emotion_logs).scores = result.pattern_scores
    /\ (HandledWithoutOutsideFailure /\ message # NotSet)
          => /\ Last(group_events).message.id = message.id
             /\ Last(group_events).message.emotion = result.emotion
             /\ Last(group_events).message.emotion_confidence = result.confidence

\* "hate" analyzed as angry, saved, logged and sent.
C14_Witness ==
    /\ HandledWithoutOutsideFailure
    /\ message # NotSet
    /\ message.content = Chars("hate")
    /\ Len(db_messages) = 1
    /\ Len(db_emotion_logs) = 1
    /\ Last(db_emotion_logs).scores["angry"] = 600
    /\ Last(group_events).message.emotion = "angry"
    /\ Last(group_events).message.emotion_confidence = 600

----------------------------------------------------------------------------
(* C12 *)

\* What analyze returns for v when it is the only call: the composition of
\* the pure steps.
LoneResult(lib, v) ==
    IF IsBlank(v) THEN DefaultResult
    ELSE LET s          == preprocess_text(v)
             vader      == VaderScoresOf(lib, s)
             textblob   == TextBlobScoresOf(lib, s)
             patterns   == analyze_emotion_patterns(s)
             classified == classify_emotion(vader, textblob, patterns)
         IN  [emotion |-> classified.emotion,
              confidence |-> classified.confidence,
              polarity |-> textblob.polarity,
              subjectivity |-> textblob.subjectivity,
              vader_scores |-> vader,
              pattern_scores |-> patterns]

\* Computed once.
LoneResultOf == [lib \in Libraries |-> [v \in ConcurrentInputs |-> LoneResult(lib, v)]]

\* The result call c holds, with the dict it refers to in place of the
\* reference.
ResultSeenBy(c) ==
    [calls[c].result EXCEPT !.pattern_scores = heap[calls[c].result.pattern_scores]]

\* C12 (under SpecConcurrent): whatever calls ran before and whatever calls
\* run interleaved with it, the result a call holds for a text, for as long
\* as it holds it, is the result analyze gives for that text when it runs
\* alone; two calls never hold the same pattern-score dict; and the pattern
\* table, the intensifiers and the diminishers are those the constructor set.
C12_NoHiddenState ==
    /\ \A c \in 1..NumCalls :
          calls[c].pc = "returned"
              => ResultSeenBy(c) = LoneResultOf[library][calls[c].text]
    /\ \A c, d \in 1..NumCalls :
          (c # d /\ calls[c].emotion_scores # 0)
              => calls[c].emotion_scores # calls[d].emotion_scores
    /\ config = ConstructedConfig

\* Two calls have returned for the same text while holding two dicts, one
\* of them after the other had run to its end.
C12_Witness ==
    /\ calls[1].pc = "returned"
    /\ calls[2].pc = "returned"
    /\ calls[1].text = Str(Chars("hate"))
    /\ calls[2].text = Str(Chars("hate"))
    /\ calls[1].result.pattern_scores # calls[2].result.pattern_scores
    /\ ResultSeenBy(1) = ResultSeenBy(2)
    /\ ResultSeenBy(1).emotion = "angry"

----------------------------------------------------------------------------
(* C21 *)

----------------------------------------------------------------------------
(* C22 *)

\* C22: preprocess_text is idempotent: called on the string it returned, it
\* returns that string again; and what it returns has no run of two '!' or
\* two '?' and neither starts nor ends with whitespace.
C22_PreprocessIdempotent ==
    /\ pc = "normalized_twice" => processed_text = text.value
    /\ pc \in {"normalized", "normalized_twice"}
          => /\ ~HasRun(processed_text, 2, {"!", "?"})
             /\ Strip(processed_text) = processed_text

\* The second call was given "a?a", which a first call returns for "A??a",
\* and returned it unchanged.
C22_Witness ==
    /\ pc = "normalized_twice"
    /\ text = Str(Chars("a?a"))
    /\ processed_text = Chars("a?a")

----------------------------------------------------------------------------
(* What the properties of connect and disconnect read off a state *)

\* The three checks of connect, as the consumer of channel c made them: the
\* user is authenticated, get_room returned an active room and
\* check_room_membership returned True.
PassedChecks(c) ==
    /\ Truthy(consumers[c].user)
    /\ consumers[c].user.is_authenticated
    /\ Truthy(consumers[c].room)
    /\ consumers[c].room.is_active
    /\ consumers[c].room.value = consumers[c].room_slug.value
    /\ consumers[c].is_member

\* The consumer of channel c is in some group.
InSomeGroup(c) == \E g \in GroupNames : c \in groups[g]

\* The consumer of channel c has sent an event of this type to a group.
HasSent(c, type) ==
    \E i \in 1..Len(group_sends[c]) : group_sends[c][i].event.type = type

\* connect has made all its checks, or has turned the connection away.
ChecksDone(c) ==
    consumers[c].pc \in {"rejected", "group_add", "accept", "group_send", "open",
                         "group_discard", "stopped"}

----------------------------------------------------------------------------
(* C23 *)

\* C23 (under SpecConnection): a connection is in the room group, accepted,
\* sent recent messages or any event of the group, or announced by
\* user_joined only if its user was authenticated, the room was there and
\* active and the user was a member of it when connect checked; a connection
\* for which a check failed is closed, is never accepted and never in a
\* group, has nothing queued for it and nothing sent to its client, and has
\* announced nothing.
C23_ConnectionGating ==
    \A c \in ChannelNames :
        /\ (\/ InSomeGroup(c)
            \/ consumers[c].accepted
            \/ inboxes[c] # <<>>
            \/ sockets[c] # <<>>
            \/ HasSent(c, "user_joined"))
              => PassedChecks(c) /\ ~consumers[c].closed
        /\ (ChecksDone(c) /\ ~PassedChecks(c)) => consumers[c].closed
        /\ consumers[c].closed
              => /\ ~PassedChecks(c)
                 /\ ~consumers[c].accepted
                 /\ ~InSomeGroup(c)
                 /\ inboxes[c] = <<>>
                 /\ sockets[c] = <<>>
                 /\ ~HasSent(c, "user_joined")

\* bob, who is no member of the room, was turned away while alice was
\* connected; alice announced herself and typed, her client got the stored
\* message and both events, and bob's got nothing.
C23_Witness ==
    /\ consumers[1].user.value = Chars("alice")
    /\ consumers[1].pc = "open"
    /\ Len(sockets[1]) = 3
    /\ sockets[1][1].type = "message"
    /\ sockets[1][2].type = "user_joined"
    /\ HasSent(1, "typing_indicator")
    /\ consumers[2].pc = "stopped"
    /\ consumers[2].user.value = Chars("bob")
    /\ Truthy(consumers[2].room)
    /\ ~consumers[2].is_member
    /\ consumers[2].closed
    /\ sockets[2] = <<>>

----------------------------------------------------------------------------
(* C24 *)

\* C24 (under SpecConnection): a consumer sends user_left to a group only
\* after it has joined that group and sent user_joined to it; a connection
\* that connect turned away sends no user_left.
C24_LeftOnlyAfterJoined ==
    \A c \in ChannelNames :
        /\ \A i \in 1..Len(group_sends[c]) :
              group_sends[c][i].event.type = "user_left"
                  => \E j \in 1..(i - 1) :
                        /\ group_sends[c][j].event.type = "user_joined"
                        /\ group_sends[c][j].group = group_sends[c][i].group
        /\ consumers[c].closed => ~HasSent(c, "user_left")

============================================================================
